---- MODULE Spec2Model ----
(***************************************************************************)
(* The resource / upgrade economy of the space game:                       *)
(*   ResourceManager  (src/src/systems/ResourceManager.ts)                 *)
(*   PlanetarySystem  (src/unnamed/part_004) spending through addResource  *)
(*                                                                         *)
(* Numbers.  Resource amounts, rates and costs are JavaScript numbers,     *)
(* IEEE-754 doubles.  A double is held as the exact value it has: a sign   *)
(* and a magnitude counted in units of 2^-(LimbBits * FracLimbs), written  *)
(* in base 2^LimbBits.  +, -, * and / round their exact result to MantBits *)
(* significant bits, ties to even, as the machine does.  Player stats only *)
(* take values with a few fractional bits, on which double arithmetic is   *)
(* exact; they are held as integers counting 1/StatUnit.  Times are whole  *)
(* milliseconds.                                                           *)
(***************************************************************************)
EXTENDS Integers, Sequences, FiniteSets, TLC

(* ------------------------------ bounds --------------------------------- *)
\* update() calls with a positive delta explored in one behaviour
MaxTicks == 1
\* the same, in the frame loop
MaxFrames == 2
\* addResource() calls explored in one behaviour
MaxAdds == 1
\* loadGame() calls that find a snapshot, explored in one behaviour
MaxLoads == 1
\* mining credits in one run of the upgrade tree
MaxHauls == 2
\* setPlayerStat() and upgrade...() calls explored in one behaviour
MaxStatCalls == 1
\* planets of GameConfig.PLANETS taken into the model
NumPlanets == 1
\* mineTarget() calls of the autopilot explored in one behaviour
MaxStarts == 2

(* ----------------------- numbers: IEEE-754 doubles --------------------- *)
\* bits of one limb of a magnitude
LimbBits == 15
Base == 2^LimbBits
\* limbs below the binary point
FracLimbs == 5
\* significant bits of a double
MantBits == 53

Zeros(k) == [i \in 1..k |-> 0]

\* a magnitude without leading zero limbs
RECURSIVE Strip(_)
Strip(a) ==
  IF a = <<>> THEN a
  ELSE IF a[Len(a)] = 0 THEN Strip(SubSeq(a, 1, Len(a) - 1)) ELSE a

\* the limbs of a natural number
RECURSIVE NatLimbs(_)
NatLimbs(n) == IF n = 0 THEN <<>> ELSE <<n % Base>> \o NatLimbs(n \div Base)

Limb(a, i) == IF i <= Len(a) THEN a[i] ELSE 0

\* a + b
RECURSIVE AddFrom(_, _, _, _)
AddFrom(a, b, i, c) ==
  IF i > Len(a) /\ i > Len(b) THEN (IF c = 0 THEN <<>> ELSE <<c>>)
  ELSE LET s == Limb(a, i) + Limb(b, i) + c IN
       <<s % Base>> \o AddFrom(a, b, i + 1, s \div Base)

BigAdd(a, b) == AddFrom(a, b, 1, 0)

\* a - b for a >= b
RECURSIVE SubFrom(_, _, _, _)
SubFrom(a, b, i, c) ==
  IF i > Len(a) THEN <<>>
  ELSE LET s == Limb(a, i) - Limb(b, i) - c IN
       <<s % Base>> \o SubFrom(a, b, i + 1, IF s < 0 THEN 1 ELSE 0)

BigSub(a, b) == Strip(SubFrom(a, b, 1, 0))

\* the sign of a - b
RECURSIVE CmpFrom(_, _, _)
CmpFrom(a, b, i) ==
  IF i = 0 THEN 0
  ELSE IF a[i] # b[i] THEN (IF a[i] > b[i] THEN 1 ELSE -1)
  ELSE CmpFrom(a, b, i - 1)

BigCmp(a, b) ==
  IF Len(a) # Len(b) THEN (IF Len(a) > Len(b) THEN 1 ELSE -1)
  ELSE CmpFrom(a, b, Len(a))

\* a * b
RECURSIVE MulSmallFrom(_, _, _, _)
MulSmallFrom(a, d, i, c) ==
  IF i > Len(a) THEN (IF c = 0 THEN <<>> ELSE <<c>>)
  ELSE LET p == a[i] * d + c IN
       <<p % Base>> \o MulSmallFrom(a, d, i + 1, p \div Base)

RECURSIVE MulFrom(_, _, _)
MulFrom(a, b, i) ==
  IF i > Len(a) THEN <<>>
  ELSE IF a[i] = 0 THEN MulFrom(a, b, i + 1)
  ELSE BigAdd(Zeros(i - 1) \o MulSmallFrom(b, a[i], 1, 0), MulFrom(a, b, i + 1))

BigMul(a, b) == Strip(MulFrom(a, b, 1))

\* a divided by the small natural d: quotient and remainder
RECURSIVE DivSmallFrom(_, _, _, _)
DivSmallFrom(a, d, i, r) ==
  IF i = 0 THEN [q |-> <<>>, r |-> r]
  ELSE LET cur == r * Base + a[i]
           rest == DivSmallFrom(a, d, i - 1, cur % d)
       IN  [q |-> rest.q \o <<cur \div d>>, r |-> rest.r]

\* the number of significant bits
RECURSIVE IntBits(_)
IntBits(n) == IF n = 0 THEN 0 ELSE 1 + IntBits(n \div 2)

BitLen(a) == IF a = <<>> THEN 0 ELSE LimbBits * (Len(a) - 1) + IntBits(a[Len(a)])

Sign3(x, y) == IF x > y THEN 1 ELSE IF x < y THEN -1 ELSE 0

\* round to nearest, ties to even, at MantBits significant bits
RoundToDouble(a) ==
  LET sh == BitLen(a) - MantBits IN
  IF sh <= 0 THEN a
  ELSE LET k == sh \div LimbBits
           P == 2^(sh % LimbBits)
           low == a[k + 1] % P
           half ==
             IF P > 1
             THEN IF 2 * low # P THEN Sign3(2 * low, P)
                  ELSE IF \A i \in 1..k : a[i] = 0 THEN 0 ELSE 1
             ELSE IF 2 * a[k] # Base THEN Sign3(2 * a[k], Base)
                  ELSE IF \A i \in 1..(k - 1) : a[i] = 0 THEN 0 ELSE 1
           odd == (a[k + 1] \div P) % 2 = 1
           trunc == Zeros(k) \o <<a[k + 1] - low>> \o SubSeq(a, k + 2, Len(a))
           unit == Zeros(k) \o <<P>>
       IN  IF half > 0 \/ (half = 0 /\ odd) THEN BigAdd(trunc, unit) ELSE trunc

\* a number: sign and magnitude; zero has no sign
Num(neg, mag) == [neg |-> neg /\ mag # <<>>, mag |-> mag]
Zero == Num(FALSE, <<>>)
FromInt(n) == Num(n < 0, Strip(Zeros(FracLimbs) \o NatLimbs(IF n < 0 THEN -n ELSE n)))
Neg(x) == Num(~x.neg, x.mag)

\* the exact sum of two numbers
XAdd(x, y) ==
  IF x.neg = y.neg THEN Num(x.neg, BigAdd(x.mag, y.mag))
  ELSE LET c == BigCmp(x.mag, y.mag) IN
       IF c = 0 THEN Zero
       ELSE IF c > 0 THEN Num(x.neg, BigSub(x.mag, y.mag))
       ELSE Num(y.neg, BigSub(y.mag, x.mag))

\* the double operations: the exact result, rounded
Round(x) == Num(x.neg, RoundToDouble(x.mag))
FAdd(x, y) == Round(XAdd(x, y))
FSub(x, y) == FAdd(x, Neg(y))
\* x < y
FLess(x, y) ==
  IF x.neg # y.neg THEN x.neg
  ELSE IF x.neg THEN BigCmp(x.mag, y.mag) > 0
  ELSE BigCmp(x.mag, y.mag) < 0
\* x * y; the exact product counts units of 2^-(2 * LimbBits * FracLimbs)
FMul(x, y) ==
  LET p == RoundToDouble(BigMul(x.mag, y.mag)) IN
  Num(x.neg # y.neg, Strip(SubSeq(p, FracLimbs + 1, Len(p))))

\* n / d for naturals n and d < Base; one guard limb, the remainder sticky
FDiv(n, d) ==
  LET dd == DivSmallFrom(Zeros(FracLimbs + 1) \o NatLimbs(n), d,
                         FracLimbs + 1 + Len(NatLimbs(n)), 0)
      q == Strip(dd.q)
      s == IF dd.r = 0 THEN q ELSE [q EXCEPT ![1] = q[1] + 1 - (q[1] % 2)]
      p == RoundToDouble(s)
  IN  Num(FALSE, Strip(SubSeq(p, 2, Len(p))))

StatUnit == 256

R(metal, crystal) == [metal |-> FromInt(metal), crystal |-> FromInt(crystal)]

(* ------------------------------ catalog -------------------------------- *)
\* hasRequires is FALSE when the literal has no requires key (ship_core)
Catalog ==
  << [id |-> "ship_core",             cost |-> R(0, 0),
      hasRequires |-> FALSE, requires |-> <<>>],
     [id |-> "basic_attack_range",    cost |-> R(15, 10),
      hasRequires |-> TRUE,  requires |-> <<"ship_core">>],
     [id |-> "improved_attack_range", cost |-> R(40, 25),
      hasRequires |-> TRUE,  requires |-> <<"basic_attack_range">>],
     [id |-> "superior_attack_range", cost |-> R(100, 75),
      hasRequires |-> TRUE,  requires |-> <<"improved_attack_range">>],
     [id |-> "basic_multi_target",    cost |-> R(20, 15),
      hasRequires |-> TRUE,  requires |-> <<"ship_core">>],
     [id |-> "improved_multi_target", cost |-> R(60, 45),
      hasRequires |-> TRUE,  requires |-> <<"basic_multi_target">>],
     [id |-> "superior_multi_target", cost |-> R(150, 120),
      hasRequires |-> TRUE,  requires |-> <<"improved_multi_target">>],
     [id |-> "attack_mastery",        cost |-> R(300, 250),
      hasRequires |-> TRUE,
      requires |-> <<"superior_attack_range", "superior_multi_target">>] >>

CatalogIds == {Catalog[i].id : i \in 1..Len(Catalog)}

\* the children lists of the literal
Children ==
  [id \in CatalogIds |->
     CASE id = "ship_core" -> {"basic_attack_range", "basic_multi_target"}
       [] id = "basic_attack_range"    -> {"improved_attack_range"}
       [] id = "improved_attack_range" -> {"superior_attack_range"}
       [] id = "basic_multi_target"    -> {"improved_multi_target"}
       [] id = "improved_multi_target" -> {"superior_multi_target"}
       [] OTHER -> {}]

\* the purchased flags of the literal: ship_core starts purchased
InitialPurchased == [id \in CatalogIds |-> id = "ship_core"]

\* faulty variant: the mastery multiplies the range and leaves the target
\* count and the power alone
Effect_MasteryRangeOnly(id, ps) ==
  CASE id = "ship_core"             -> ps
    [] id = "basic_attack_range"    ->
         [ps EXCEPT !.attackRange = (ps.attackRange * 3) \div 2]
    [] id = "improved_attack_range" ->
         [ps EXCEPT !.attackRange = ps.attackRange * 2]
    [] id = "superior_attack_range" ->
         [ps EXCEPT !.attackRange = ps.attackRange * 3]
    [] id = "basic_multi_target"    -> [ps EXCEPT !.multiAttack = 2 * StatUnit]
    [] id = "improved_multi_target" -> [ps EXCEPT !.multiAttack = 4 * StatUnit]
    [] id = "superior_multi_target" -> [ps EXCEPT !.multiAttack = 8 * StatUnit]
    [] id = "attack_mastery"        ->
         [ps EXCEPT !.attackRange = (ps.attackRange * 3) \div 2]

\* the effect closures of the catalog, applied to the stat record
Effect(id, ps) ==
  CASE id = "ship_core"             -> ps
    [] id = "basic_attack_range"    ->
         [ps EXCEPT !.attackRange = (ps.attackRange * 3) \div 2]
    [] id = "improved_attack_range" ->
         [ps EXCEPT !.attackRange = ps.attackRange * 2]
    [] id = "superior_attack_range" ->
         [ps EXCEPT !.attackRange = ps.attackRange * 3]
    [] id = "basic_multi_target"    -> [ps EXCEPT !.multiAttack = 2 * StatUnit]
    [] id = "improved_multi_target" -> [ps EXCEPT !.multiAttack = 4 * StatUnit]
    [] id = "superior_multi_target" -> [ps EXCEPT !.multiAttack = 8 * StatUnit]
    [] id = "attack_mastery"        ->
         [ps EXCEPT !.attackRange = (ps.attackRange * 3) \div 2,
                    !.multiAttack = ps.multiAttack * 2,
                    !.attackPower = ps.attackPower * 2]

(* ------------------------------ defaults ------------------------------- *)
DefaultResources == R(0, 0)

\* the literals 0.5 and 0.2: the doubles nearest to 1/2 and 1/5
DefaultRates == [metalRate |-> FDiv(1, 2), crystalRate |-> FDiv(1, 5)]

DefaultPlayerStats ==
  [shipSpeed         |-> 200 * StatUnit,
   collectionRadius  |-> 0,
   autoCollectChance |-> 0,
   miningSpeed       |-> 1 * StatUnit,
   miningPower       |-> 1 * StatUnit,
   attackRange       |-> 100 * StatUnit,
   attackPower       |-> 1 * StatUnit,
   multiAttack       |-> 1 * StatUnit]

StartingResources == R(500, 500)

autosaveInterval == 30000

NoSave == [present |-> FALSE]

(* ------------------------------- state --------------------------------- *)
VARIABLES
  resources,     \* ResourceManager.resources
  rates,         \* ResourceManager.rates
  playerStats,   \* ResourceManager.playerStats
  purchased,     \* the purchased flag of every entry of ResourceManager.upgrades
  lastSaveTime,  \* ResourceManager.lastSaveTime
  store,         \* localStorage item 'idleGameSave'
  planets,       \* PlanetarySystem.planets: isColonized, colonyLevel
  asteroids,         \* the Asteroid objects: health, hasBeenMined, active
  shipAt,            \* where the ship is: in the asteroid belt or at the station
  nearbyAsteroids,   \* MiningSystem.nearbyAsteroids
  miningActive,      \* MiningSystem.miningActive
  miningTargets,     \* MiningSystem.miningTargets
  miningTimer,       \* MiningSystem.miningTimer is not null
  liveTimers,        \* looping timers of the scene clock that call mineAsteroids
  teleportHoldTime,  \* TeleportSystem.teleportHoldTime
  teleportCooldown,  \* TeleportSystem.teleportCooldown
  keyDownFor,        \* ms the teleport key was seen down, update after update
  ticks, adds, loads, statCalls,  \* calls made so far (exploration bounds only)
  starts             \* mineTarget() calls made so far (exploration bound only)

\* the scene around the manager: asteroids, ship, mining and teleport systems
scene == <<asteroids, shipAt, nearbyAsteroids, miningActive, miningTargets,
           miningTimer, liveTimers, teleportHoldTime, teleportCooldown,
           keyDownFor, starts>>

vars == <<resources, rates, playerStats, purchased, lastSaveTime, store,
          planets, ticks, adds, loads, statCalls, scene>>

counters == <<ticks, adds, loads, statCalls>>

(* --------------------------- planets (config) -------------------------- *)
\* GameConfig.PLANETS: id and colonizationCost, in order
PLANETS ==
  << [id |-> "rocky1",    colonizationCost |-> R(50, 20)],
     [id |-> "icy1",      colonizationCost |-> R(40, 30)],
     [id |-> "volcanic1", colonizationCost |-> R(80, 40)],
     [id |-> "gaseous1",  colonizationCost |-> R(60, 60)],
     [id |-> "oceanic1",  colonizationCost |-> R(50, 50)] >>

PlanetIx == 1..NumPlanets

(* ------------------------------- inputs -------------------------------- *)
\* ids a caller may pass: every catalog id and one id the catalog lacks
UpgradeIdInputs == CatalogIds \cup {"warp_drive"}

\* frame deltas in ms (dt >= 0)
DeltaTimes == {0, 16, 1000, 14999, 15000, 30000}

\* the frame deltas the behaviours make
TickCalls == {0, 30016}

\* the frame deltas of the frame loop
FrameCalls == {0, 16, 1000, 15000}

ResourceKinds == {"metal", "crystal"}

\* amounts handed to addResource, in whole resources
AddAmounts == {-600, 200}

\* the addResource calls the behaviours make
AddCalls == {<<"metal", -600>>, <<"crystal", 200>>}

\* setPlayerStat(statName, value) as the scenes call it (the autopilot toggle
\* with 1 and 0, the mining system with the default attack range, 200) and
\* with values on both sides of the range of a chance and below zero; stats
\* are in units of 1 / StatUnit
SetCalls ==
  {<<"autopilotEnabled", StatUnit>>, <<"autopilotEnabled", 0>>,
   <<"attackRange", 200 * StatUnit>>,
   <<"autoCollectChance", StatUnit \div 2>>,
   <<"autoCollectChance", (3 * StatUnit) \div 2>>,
   <<"autoCollectChance", -(StatUnit \div 2)>>,
   <<"miningSpeed", -StatUnit>>}

\* the amount of an upgrade...(amount) call: 0.5, 2 and -300
StatAmounts == {StatUnit \div 2, 2 * StatUnit, -(300 * StatUnit)}

\* what a caller may assign to a field of a record it got from a getter
Overwrites(h) ==
  CASE h.of = "resources"   -> {[h.value EXCEPT !.metal = Zero]}
    [] h.of = "rates"       -> {[h.value EXCEPT !.crystalRate = FromInt(7)]}
    [] h.of = "playerStats" -> {[h.value EXCEPT !.attackRange = 0]}

\* addResource calls between the spending calls of the planet dialog: debits
\* that leave metal short, or crystal short alone, and a credit
ColonyCalls == {<<"metal", -600>>, <<"crystal", -400>>, <<"crystal", 200>>}

\* MiningSystem: addResource('metal', resourceAmount) and
\* addResource('crystal', resourceAmount) of a destroyed asteroid
HaulCalls == {<<"metal", 200>>, <<"crystal", 200>>}

(* ------------------------------ helpers -------------------------------- *)
RECURSIVE FindFrom(_, _)
FindFrom(id, i) ==
  IF i > Len(Catalog) THEN 0
  ELSE IF Catalog[i].id = id THEN i ELSE FindFrom(id, i + 1)

\* this.upgrades.find(u => u.id === id) / findIndex: the index, 0 when absent
Find(id) == FindFrom(id, 1)

\* requiredUpgrade?.purchased === true
RequiredIsPurchased(pur, requiredId) ==
  Find(requiredId) # 0 /\ pur[requiredId] = TRUE

\* faulty variant: some() in place of every()
EveryRequired_Some(pur, u) ==
  \E k \in 1..Len(u.requires) : RequiredIsPurchased(pur, u.requires[k])

\* upgrade.requires.every(...)
EveryRequired(pur, u) ==
  \A k \in 1..Len(u.requires) : RequiredIsPurchased(pur, u.requires[k])

\* faulty variant: the guard tests length === 0, so the requirements are never tested
RequirementsPass_NeverChecks(pur, u) ==
  IF u.hasRequires /\ Len(u.requires) = 0 THEN EveryRequired(pur, u) ELSE TRUE

\* the guard "upgrade.requires && upgrade.requires.length > 0" and the test
\* under it: FALSE exactly when the code returns early on the requirements
RequirementsPass(pur, u) ==
  IF u.hasRequires /\ Len(u.requires) > 0 THEN EveryRequired(pur, u) ELSE TRUE

\* getAvailableUpgrades(): the catalog entries the filter keeps, in order
getAvailableUpgrades(pur) ==
  SelectSeq(Catalog,
            LAMBDA u : IF pur[u.id] THEN FALSE ELSE RequirementsPass(pur, u))

\* UpgradesPanel.createUpgradeNode: "Determine node state"
nodeState(pur, u) ==
  IF pur[u.id] THEN "purchased"
  ELSE IF u.hasRequires
       THEN IF EveryRequired(pur, u) THEN "available" ELSE "locked"
       ELSE "available"

\* canAffordUpgrade(upgradeId)
canAffordUpgrade(res, pur, id) ==
  IF Find(id) = 0 THEN FALSE
  ELSE LET u == Catalog[Find(id)] IN
       IF ~RequirementsPass(pur, u) THEN FALSE
       ELSE ~FLess(res.metal, u.cost.metal) /\ ~FLess(res.crystal, u.cost.crystal)

\* faulty variant: the "already purchased" return is missing
PurchaseRejected_NoPurchasedCheck(res, pur, id) ==
  \/ Find(id) = 0
  \/ ~RequirementsPass(pur, Catalog[Find(id)])
  \/ ~canAffordUpgrade(res, pur, id)

\* purchaseUpgrade: the four early returns
PurchaseRejected(res, pur, id) ==
  \/ Find(id) = 0
  \/ pur[id]
  \/ ~RequirementsPass(pur, Catalog[Find(id)])
  \/ ~canAffordUpgrade(res, pur, id)

\* faulty variant: only metal is debited
Deduct_MetalOnly(res, cost) ==
  [metal |-> FSub(res.metal, cost.metal), crystal |-> res.crystal]

\* purchaseUpgrade: "Deduct resources"
Deduct(res, cost) ==
  [metal   |-> FSub(res.metal, cost.metal),
   crystal |-> FSub(res.crystal, cost.crystal)]

\* faulty variant: the flag is set by rebuilding the flags, which clears the others
MarkPurchased_ClearsOthers(pur, id) == [i \in DOMAIN pur |-> i = id]

\* purchaseUpgrade: "Mark as purchased"
MarkPurchased(pur, id) == [pur EXCEPT ![id] = TRUE]

\* addResource(resourceType, amount): the resources after the call
addResource(res, kind, amount) ==
  IF kind \in DOMAIN res
  THEN [res EXCEPT ![kind] = FAdd(res[kind], amount)]
  ELSE res

\* faulty variant: crystal accrues at the metal rate
Accrue_MetalRateForBoth(res, rt, deltaTime) ==
  LET deltaSeconds == FDiv(deltaTime, 1000) IN
  [metal   |-> FAdd(res.metal,   FMul(rt.metalRate, deltaSeconds)),
   crystal |-> FAdd(res.crystal, FMul(rt.metalRate, deltaSeconds))]

\* update: the accrual of one frame, deltaSeconds = deltaTime / 1000
Accrue(res, rt, deltaTime) ==
  LET deltaSeconds == FDiv(deltaTime, 1000) IN
  [metal   |-> FAdd(res.metal,   FMul(rt.metalRate,   deltaSeconds)),
   crystal |-> FAdd(res.crystal, FMul(rt.crystalRate, deltaSeconds))]

\* faulty variant: every entry is written as not purchased
SaveData_DropsPurchased(res, rt, ps, pur) ==
  [present |-> TRUE, resources |-> res, rates |-> rt, playerStats |-> ps,
   upgrades |-> [i \in 1..Len(Catalog) |->
                   [id |-> Catalog[i].id, purchased |-> FALSE]]]

\* saveGame: the record that JSON.stringify writes
SaveData(res, rt, ps, pur) ==
  [present |-> TRUE, resources |-> res, rates |-> rt, playerStats |-> ps,
   upgrades |-> [i \in 1..Len(Catalog) |->
                   [id |-> Catalog[i].id, purchased |-> pur[Catalog[i].id]]]]

\* faulty variant: the flags are restored and no effect is applied again
RestoreUpgrades_NoReplay(saved, k, pur, ps) ==
  [purchased |->
     [id \in CatalogIds |->
        IF \E j \in k..Len(saved) : saved[j].id = id
        THEN \E j \in k..Len(saved) : saved[j].id = id /\ saved[j].purchased
        ELSE pur[id]],
   playerStats |-> ps]

\* loadGame: parsedData.upgrades.forEach, entries k..Len in order, acting on
\* the pair (purchased flags, playerStats)
RECURSIVE RestoreUpgrades(_, _, _, _)
RestoreUpgrades(saved, k, pur, ps) ==
  IF k > Len(saved) THEN [purchased |-> pur, playerStats |-> ps]
  ELSE LET s == saved[k] IN
       IF Find(s.id) = 0 THEN RestoreUpgrades(saved, k + 1, pur, ps)
       ELSE RestoreUpgrades(saved, k + 1,
              [pur EXCEPT ![s.id] = s.purchased],
              IF s.purchased THEN Effect(s.id, ps) ELSE ps)

RECURSIVE Pow2(_)
Pow2(n) == IF n = 0 THEN 1 ELSE 2 * Pow2(n - 1)

\* Planet.getUpgradeCost
getUpgradeCost(i, level) ==
  [metal   |-> FMul(PLANETS[i].colonizationCost.metal, FromInt(Pow2(level))),
   crystal |-> FMul(PLANETS[i].colonizationCost.crystal, FromInt(Pow2(level)))]

\* Planet.colonize
colonize(pl) == [pl EXCEPT !.isColonized = TRUE, !.colonyLevel = 1]

\* Planet.upgradeColony
upgradeColony(pl) ==
  IF pl.isColonized THEN [pl EXCEPT !.colonyLevel = pl.colonyLevel + 1] ELSE pl

\* the resource test of colonizePlanet / upgradePlanetColony
CannotPay(res, cost) ==
  FLess(res.metal, cost.metal) \/ FLess(res.crystal, cost.crystal)

(* ----------------------------- operations ------------------------------ *)
\* Every ResourceManager method is a function of the manager m, a record of
\* the fields resources, rates, playerStats, purchased, lastSaveTime and of
\* the stored item store; it yields the manager after the call.

\* faulty variant: the cost is taken and the effect applied, the flag is not
\* set
purchaseUpgrade_DebitsWithoutFlag(m, id) ==
  IF PurchaseRejected(m.resources, m.purchased, id)
  THEN [ret |-> FALSE, m |-> m]
  ELSE [ret |-> TRUE,
        m |-> [m EXCEPT
                 !.resources = Deduct(m.resources, Catalog[Find(id)].cost),
                 !.playerStats = Effect(id, m.playerStats)]]

\* purchaseUpgrade(upgradeId): the value returned and the manager afterwards
purchaseUpgrade(m, id) ==
  IF PurchaseRejected(m.resources, m.purchased, id)
  THEN [ret |-> FALSE, m |-> m]
  ELSE [ret |-> TRUE,
        m |-> [m EXCEPT
                 !.resources = Deduct(m.resources, Catalog[Find(id)].cost),
                 !.playerStats = Effect(id, m.playerStats),
                 !.purchased = MarkPurchased(m.purchased, id)]]

\* faulty variant: a write that fails has already removed the item
saveGameTo_FailureClearsItem(m, writes) ==
  IF writes
  THEN [m EXCEPT !.store =
          SaveData(m.resources, m.rates, m.playerStats, m.purchased)]
  ELSE [m EXCEPT !.store = NoSave]

\* saveGame() on a store that takes the write (writes) or throws from
\* JSON.stringify or setItem: the catch logs and the item stays as it was
saveGameTo(m, writes) ==
  IF writes
  THEN [m EXCEPT !.store =
          SaveData(m.resources, m.rates, m.playerStats, m.purchased)]
  ELSE m

\* saveGame()
saveGame(m) == saveGameTo(m, TRUE)

\* faulty variant: the autosave comparison is reversed
autosave_ReversedTest(m) ==
  IF m.lastSaveTime <= autosaveInterval
  THEN [saveGame(m) EXCEPT !.lastSaveTime = 0]
  ELSE m

\* update(deltaTime): "Handle autosave"
autosave(m) ==
  IF m.lastSaveTime >= autosaveInterval
  THEN [saveGame(m) EXCEPT !.lastSaveTime = 0]
  ELSE m

\* faulty variant: the autosave runs before the accrual of the tick
update_SavesBeforeAccrual(m, deltaTime) ==
  LET saved == autosave([m EXCEPT !.lastSaveTime = m.lastSaveTime + deltaTime])
  IN  [saved EXCEPT
         !.resources = Accrue(m.resources, m.rates, deltaTime)]

\* update(deltaTime): accrual, then the autosave
update(m, deltaTime) ==
  autosave([m EXCEPT
              !.resources = Accrue(m.resources, m.rates, deltaTime),
              !.lastSaveTime = m.lastSaveTime + deltaTime])

\* what getItem and JSON.parse hand to loadGame for the stored record s: the
\* parsed object with every field of a snapshot, or null when nothing is stored
ItemOf(s) ==
  IF s.present
  THEN [kind |-> "data",
        hasResources |-> TRUE, resources |-> s.resources,
        hasRates |-> TRUE, rates |-> s.rates,
        hasPlayerStats |-> TRUE, playerStats |-> s.playerStats,
        upgradesKind |-> "array", upgrades |-> s.upgrades, brokenAt |-> 0]
  ELSE [kind |-> "null"]

\* loadGame() reading item. kind "throws": getItem or JSON.parse throws, the
\* catch logs; kind "null": nothing stored. For a parsed object the four
\* "if (parsedData.x)" steps run in order; upgradesKind "notArray" is a truthy
\* upgrades value without forEach, brokenAt > 0 the index of the first entry
\* that is null: either one throws at that point, the catch logs, and what
\* was assigned before stays
loadGameFrom(m, item) ==
  IF item.kind # "data" THEN m
  ELSE LET res == IF item.hasResources THEN item.resources ELSE m.resources
           rt  == IF item.hasRates THEN item.rates ELSE m.rates
           ps  == IF item.hasPlayerStats THEN item.playerStats
                  ELSE m.playerStats
           saved == CASE item.upgradesKind = "array" /\ item.brokenAt = 0 ->
                           item.upgrades
                      [] item.upgradesKind = "array" /\ item.brokenAt > 0 ->
                           SubSeq(item.upgrades, 1, item.brokenAt - 1)
                      [] OTHER -> <<>>
           r == RestoreUpgrades(saved, 1, m.purchased, ps)
       IN  [m EXCEPT !.resources = res,
                     !.rates = rt,
                     !.playerStats = r.playerStats,
                     !.purchased = r.purchased]

\* loadGame()
loadGame(m) == loadGameFrom(m, ItemOf(m.store))

\* the fields as the class initialisers and the first statements of the
\* constructor leave them, with s stored
FieldDefaults(s) ==
  [resources |-> DefaultResources, rates |-> DefaultRates,
   playerStats |-> DefaultPlayerStats, purchased |-> InitialPurchased,
   lastSaveTime |-> 0, store |-> s]

\* new ResourceManager() reading item: the defaults, loadGame, then the
\* starting resources
constructFrom(s, item) ==
  [loadGameFrom(FieldDefaults(s), item) EXCEPT !.resources = StartingResources]

\* new ResourceManager() with s stored
construct(s) == constructFrom(s, ItemOf(s))

\* faulty variant: the flags are reset to those of the catalog literal, which
\* has ship_core purchased
resetGame_KeepsShipCore(m) ==
  [m EXCEPT !.store = NoSave,
            !.resources = DefaultResources,
            !.rates = DefaultRates,
            !.playerStats = DefaultPlayerStats,
            !.purchased = InitialPurchased]

\* resetGame()
resetGame(m) ==
  [m EXCEPT !.store = NoSave,
            !.resources = DefaultResources,
            !.rates = DefaultRates,
            !.playerStats = DefaultPlayerStats,
            !.purchased = [id \in CatalogIds |-> FALSE]]

\* getResources(): a new record with the fields of this.resources. The record
\* a caller gets: the field it was made of, its values, and "shared",
\* whether it is the manager's own object
getResources(m) ==
  [of |-> "resources", shared |-> FALSE, value |-> m.resources]

\* getRates()
getRates(m) == [of |-> "rates", shared |-> FALSE, value |-> m.rates]

\* faulty variant: return this.playerStats
getPlayerStats_ReturnsField(m) ==
  [of |-> "playerStats", shared |-> TRUE, value |-> m.playerStats]

\* getPlayerStats()
getPlayerStats(m) ==
  [of |-> "playerStats", shared |-> FALSE, value |-> m.playerStats]

\* the array a list getter returns: the ids of the upgrade objects in it, in
\* order, whether the array is this.upgrades itself, and whether its elements
\* are the manager's own upgrade objects. A spread or a filter makes a new
\* array of the same objects
UpgradeList(ids) == [ownArray |-> FALSE, ownObjects |-> TRUE, ids |-> ids]

\* getUpgrades(): [...this.upgrades]
getUpgrades(m) == UpgradeList([i \in 1..Len(Catalog) |-> Catalog[i].id])

\* getAvailableUpgrades(), as the array handed to the caller
getAvailableUpgradesList(m) ==
  LET kept == getAvailableUpgrades(m.purchased) IN
  UpgradeList([i \in 1..Len(kept) |-> kept[i].id])

\* getRootUpgrades()
getRootUpgrades(m) ==
  LET kept == SelectSeq(Catalog,
                 LAMBDA u : ~u.hasRequires \/ Len(u.requires) = 0) IN
  UpgradeList([i \in 1..Len(kept) |-> kept[i].id])

\* getChildUpgrades(parentId)
getChildUpgrades(m, parentId) ==
  IF Find(parentId) = 0 THEN UpgradeList(<<>>)
  ELSE IF Children[parentId] = {} THEN UpgradeList(<<>>)
  ELSE LET kept == SelectSeq(Catalog, LAMBDA u : u.id \in Children[parentId]) IN
       UpgradeList([i \in 1..Len(kept) |-> kept[i].id])

\* a caller assigns v to the purchased field of element k of list h: the
\* manager afterwards
writePurchased(m, h, k, v) ==
  IF h.ownObjects THEN [m EXCEPT !.purchased[h.ids[k]] = v] ELSE m

\* a caller holding record h assigns to its fields, leaving it with values v:
\* the assignment lands in the manager's object when h is that object
writeRecord(m, h, v) ==
  [m |-> IF h.shared THEN [m EXCEPT ![h.of] = v] ELSE m,
   h |-> [h EXCEPT !.value = v]]

\* what a caller reads from record h while the manager is m
readRecord(m, h) == IF h.shared THEN m[h.of] ELSE h.value

\* setPlayerStat(statName, value)
setPlayerStat(m, statName, value) ==
  [m EXCEPT !.playerStats =
     [k \in DOMAIN m.playerStats \cup {statName} |->
        IF k = statName THEN value ELSE m.playerStats[k]]]

\* upgradeShipSpeed(amount)
upgradeShipSpeed(m, amount) ==
  [m EXCEPT !.playerStats.shipSpeed = @ + amount]

\* upgradeCollectionRadius(amount)
upgradeCollectionRadius(m, amount) ==
  [m EXCEPT !.playerStats.collectionRadius = @ + amount]

\* upgradeAutoCollectChance(amount): "Cap at 100%"
upgradeAutoCollectChance(m, amount) ==
  LET sum == m.playerStats.autoCollectChance + amount IN
  [m EXCEPT !.playerStats.autoCollectChance =
              IF sum > StatUnit THEN StatUnit ELSE sum]

\* upgradeMiningSpeed(amount)
upgradeMiningSpeed(m, amount) ==
  [m EXCEPT !.playerStats.miningSpeed = @ + amount]

\* upgradeMiningPower(amount)
upgradeMiningPower(m, amount) ==
  [m EXCEPT !.playerStats.miningPower = @ + amount]

\* faulty variant: the "already colonized" return is missing
colonizePlanet_NoColonizedTest(res, pl, i) ==
  LET cost == PLANETS[i].colonizationCost IN
  IF CannotPay(res, cost)
  THEN [ret |-> FALSE, resources |-> res, planet |-> pl]
  ELSE [ret |-> TRUE,
        resources |-> addResource(addResource(res, "metal", Neg(cost.metal)),
                                  "crystal", Neg(cost.crystal)),
        planet |-> colonize(pl)]

\* PlanetarySystem.colonizePlanet(planet): the value returned, the resources
\* and the planet afterwards
colonizePlanet(res, pl, i) ==
  LET cost == PLANETS[i].colonizationCost IN
  IF pl.isColonized THEN [ret |-> FALSE, resources |-> res, planet |-> pl]
  ELSE IF CannotPay(res, cost)
       THEN [ret |-> FALSE, resources |-> res, planet |-> pl]
       ELSE [ret |-> TRUE,
             resources |-> addResource(addResource(res, "metal", Neg(cost.metal)),
                                       "crystal", Neg(cost.crystal)),
             planet |-> colonize(pl)]

\* PlanetarySystem.upgradePlanetColony(planet)
upgradePlanetColony(res, pl, i) ==
  LET cost == getUpgradeCost(i, pl.colonyLevel) IN
  IF ~pl.isColonized THEN [ret |-> FALSE, resources |-> res, planet |-> pl]
  ELSE IF CannotPay(res, cost)
       THEN [ret |-> FALSE, resources |-> res, planet |-> pl]
       ELSE [ret |-> TRUE,
             resources |-> addResource(addResource(res, "metal", Neg(cost.metal)),
                                       "crystal", Neg(cost.crystal)),
             planet |-> upgradeColony(pl)]

(* ------------------------- asteroids and mining ------------------------ *)
\* the asteroids of the belt by type, in the order the group holds them
BELT == <<"metal", "crystal", "metal">>
AsteroidIx == 1..Len(BELT)

\* new Asteroid(scene, x, y, type); health in the unit of the player stats
NewAsteroid(type) ==
  [asteroidType |-> type,
   health |-> (IF type = "metal" THEN 5 ELSE 8) * StatUnit,
   resourceAmount |-> IF type = "metal" THEN 10 ELSE 5,
   hasBeenMined |-> FALSE,
   active |-> TRUE]

\* Asteroid.explode(): the asteroid is marked; it is destroyed later, when
\* the animation completes or the safety timeout runs
explode(a) == [a EXCEPT !.hasBeenMined = TRUE]

\* Asteroid.destroy()
destroy(a) == [a EXCEPT !.active = FALSE]

\* faulty variant: the test on health and hasBeenMined is missing
mine_NoMinedTest(a, damage) ==
  LET hit == [a EXCEPT !.health = @ - damage] IN
  IF hit.health <= 0
  THEN [ret |-> TRUE, asteroid |-> explode(hit)]
  ELSE [ret |-> FALSE, asteroid |-> hit]

\* Asteroid.mine(damage): the value returned and the asteroid afterwards
mine(a, damage) ==
  IF a.health <= 0 \/ a.hasBeenMined THEN [ret |-> FALSE, asteroid |-> a]
  ELSE LET hit == [a EXCEPT !.health = @ - damage] IN
       IF hit.health <= 0
       THEN [ret |-> TRUE, asteroid |-> explode(hit)]
       ELSE [ret |-> FALSE, asteroid |-> hit]

\* Phaser.Math.Distance.Between(ship, asteroid), by the place of the ship
Distance(place, a) ==
  IF place = "belt" THEN (CASE a = 1 -> 60 [] a = 2 -> 30 [] OTHER -> 90)
  ELSE 9000 + a

\* the asteroids of the belt, closest to the ship first
ClosestFirst == <<2, 1, 3>>

\* [...list].sort by distance
SortByDistance(list) ==
  SelectSeq(ClosestFirst, LAMBDA a : \E k \in 1..Len(list) : list[k] = a)

\* Math.floor of a number between 0 and 16
Floor(x) ==
  CHOOSE n \in 0..16 : ~FLess(x, FromInt(n)) /\ FLess(x, FromInt(n + 1))

\* array.slice(0, end) with end a stat value: the end is truncated to an
\* integer and a negative end counts from the end of the array
Slice(list, end) ==
  LET k == IF end >= 0 THEN end \div StatUnit ELSE -((-end) \div StatUnit)
      last == IF k < 0 THEN (IF Len(list) + k < 0 THEN 0 ELSE Len(list) + k)
              ELSE IF k > Len(list) THEN Len(list) ELSE k
  IN  SubSeq(list, 1, last)

\* MiningSystem.stopMining()
stopMining(w) ==
  [w EXCEPT !.miningActive = FALSE,
            !.miningTargets = <<>>,
            !.liveTimers = IF w.miningTimer THEN @ - 1 ELSE @,
            !.miningTimer = FALSE]

\* MiningSystem.startMining()
startMining(w) ==
  [w EXCEPT !.miningActive = TRUE,
            !.miningTargets = Slice(SortByDistance(w.nearbyAsteroids),
                                    w.m.playerStats.multiAttack),
            !.liveTimers = @ + 1,
            !.miningTimer = TRUE]

\* MiningSystem.updateNearbyAsteroids(): the attack range falls back to
\* GameConfig.DEFAULT_ATTACK_RANGE, then the asteroids of the group within
\* the range are listed
updateNearbyAsteroids(w) ==
  LET m1 == IF w.m.playerStats.attackRange <= 0
            THEN setPlayerStat(w.m, "attackRange", 200 * StatUnit)
            ELSE w.m
  IN  [w EXCEPT
         !.m = m1,
         !.nearbyAsteroids =
            SelectSeq([a \in AsteroidIx |-> a],
                      LAMBDA a : /\ w.asteroids[a].active
                                 /\ Distance(w.shipAt, a) * StatUnit
                                      <= m1.playerStats.attackRange)]

\* MiningSystem.handleMiningInput() with the state of the mining key
handleMiningInput(w, justDown, justUp) ==
  LET w1 == IF justDown /\ Len(w.nearbyAsteroids) > 0 /\ ~w.miningActive
            THEN startMining(w) ELSE w
      w2 == IF w1.miningActive /\ justUp THEN stopMining(w1) ELSE w1
      kept == SelectSeq(w2.miningTargets,
                        LAMBDA a : /\ w2.asteroids[a].active
                                   /\ Distance(w2.shipAt, a) * StatUnit
                                        <= w2.m.playerStats.attackRange)
  IN  IF ~w2.miningActive THEN w2
      ELSE IF Len(kept) = 0
           THEN stopMining([w2 EXCEPT !.miningTargets = kept])
           ELSE [w2 EXCEPT !.miningTargets = kept]

\* MiningSystem.update(delta)
miningUpdate(w, justDown, justUp) ==
  handleMiningInput(updateNearbyAsteroids(w), justDown, justUp)

\* MiningSystem.collectAsteroidResources(target)
collectAsteroidResources(m, a) ==
  LET amount == FromInt(a.resourceAmount)
      part == FromInt(Floor(FMul(amount, FDiv(3, 10))))
      first == IF a.asteroidType = "metal" THEN "metal" ELSE "crystal"
      second == IF a.asteroidType = "metal" THEN "crystal" ELSE "metal"
  IN  [m EXCEPT !.resources =
         addResource(addResource(m.resources, first, amount), second, part)]

\* MiningSystem.findAndAddNewTargets()
findAndAddNewTargets(w) ==
  LET multiAttack == w.m.playerStats.multiAttack IN
  IF Len(w.miningTargets) * StatUnit < multiAttack /\ Len(w.nearbyAsteroids) > 0
  THEN LET availableAsteroids ==
             SelectSeq(w.nearbyAsteroids,
                       LAMBDA a : /\ \A k \in 1..Len(w.miningTargets) :
                                        w.miningTargets[k] # a
                                  /\ w.asteroids[a].active)
       IN  [w EXCEPT !.miningTargets =
              @ \o Slice(SortByDistance(availableAsteroids),
                         multiAttack - Len(w.miningTargets) * StatUnit)]
  ELSE w

\* the forEach of mineAsteroids from target k on: each active target is
\* mined with the damage given, and a destroyed one is listed and credited
RECURSIVE MineEach(_, _, _, _)
MineEach(w, k, damage, destroyedTargets) ==
  IF k > Len(w.miningTargets)
  THEN [w |-> w, destroyedTargets |-> destroyedTargets]
  ELSE LET target == w.miningTargets[k]
           r == mine(w.asteroids[target], damage)
       IN  IF ~w.asteroids[target].active
           THEN MineEach(w, k + 1, damage, destroyedTargets)
           ELSE MineEach(
                  [w EXCEPT !.asteroids[target] = r.asteroid,
                            !.m = IF r.ret
                                  THEN collectAsteroidResources(@, r.asteroid)
                                  ELSE @],
                  k + 1, damage,
                  IF r.ret THEN destroyedTargets \cup {target}
                  ELSE destroyedTargets)

\* MiningSystem.mineAsteroids(), the callback of the mining timers
mineAsteroids(w) ==
  IF Len(w.miningTargets) = 0 THEN w
  ELSE LET miningDamage == IF w.m.playerStats.miningPower = 0 THEN StatUnit
                           ELSE w.m.playerStats.miningPower
           r == MineEach(w, 1, miningDamage, {})
           w1 == IF r.destroyedTargets # {}
                 THEN findAndAddNewTargets(
                        [r.w EXCEPT !.miningTargets =
                           SelectSeq(@, LAMBDA a : a \notin r.destroyedTargets)])
                 ELSE r.w
       IN  IF Len(w1.miningTargets) = 0 THEN stopMining(w1) ELSE w1

\* AutopilotSystem.mineTarget(): "Method 2", the call of startMining
mineTarget(w) == startMining(w)

(* ------------------------------ teleport ------------------------------- *)
\* GameConfig.TELEPORT_REQUIRED_TIME and TELEPORT_COOLDOWN_TIME, in ms
TELEPORT_REQUIRED_TIME == 1000
TELEPORT_COOLDOWN_TIME == 5000

\* frame deltas of TeleportSystem.update, in ms
TeleportDeltas == {400, 600, 5000}

\* faulty variant: the return during the cooldown is missing
handleTeleport_NoCooldownTest(t, isDown, delta) ==
  IF isDown
  THEN LET held == t.teleportHoldTime + delta IN
       IF held >= TELEPORT_REQUIRED_TIME
       THEN [teleported |-> TRUE,
             t |-> [teleportHoldTime |-> 0,
                    teleportCooldown |-> TELEPORT_COOLDOWN_TIME]]
       ELSE [teleported |-> FALSE, t |-> [t EXCEPT !.teleportHoldTime = held]]
  ELSE [teleported |-> FALSE, t |-> [t EXCEPT !.teleportHoldTime = 0]]

\* TeleportSystem.handleTeleport(delta) with the state of the teleport key:
\* whether teleportToSpaceStation was called, and the fields afterwards
handleTeleport(t, isDown, delta) ==
  IF t.teleportCooldown > 0 THEN [teleported |-> FALSE, t |-> t]
  ELSE IF isDown
       THEN LET held == t.teleportHoldTime + delta IN
            IF held >= TELEPORT_REQUIRED_TIME
            THEN [teleported |-> TRUE,
                  t |-> [teleportHoldTime |-> 0,
                         teleportCooldown |-> TELEPORT_COOLDOWN_TIME]]
            ELSE [teleported |-> FALSE,
                  t |-> [t EXCEPT !.teleportHoldTime = held]]
       ELSE [teleported |-> FALSE, t |-> [t EXCEPT !.teleportHoldTime = 0]]

\* TeleportSystem.updateTeleportCooldown(delta)
updateTeleportCooldown(t, delta) ==
  IF t.teleportCooldown > 0
  THEN [t EXCEPT !.teleportCooldown = @ - delta]
  ELSE t

\* TeleportSystem.update(delta)
teleportUpdate(t, isDown, delta) ==
  LET r == handleTeleport(t, isDown, delta) IN
  [teleported |-> r.teleported, t |-> updateTeleportCooldown(r.t, delta)]

\* TeleportSystem.teleportToSpaceStation()
teleportToSpaceStation(w) == [stopMining(w) EXCEPT !.shipAt = "station"]

(* ------------------------------- Init ---------------------------------- *)
\* new ResourceManager() with nothing stored: field initialisers, loadGame
\* finds no item, then the starting resources are set
Init ==
  /\ resources = StartingResources
  /\ rates = DefaultRates
  /\ playerStats = DefaultPlayerStats
  /\ purchased = InitialPurchased
  /\ lastSaveTime = 0
  /\ store = NoSave
  /\ planets = [i \in PlanetIx |-> [isColonized |-> FALSE, colonyLevel |-> 0]]
  /\ ticks = 0 /\ adds = 0 /\ loads = 0 /\ statCalls = 0
  /\ asteroids = [a \in AsteroidIx |-> NewAsteroid(BELT[a])]
  /\ shipAt = "belt"
  /\ nearbyAsteroids = <<>>
  /\ miningActive = FALSE
  /\ miningTargets = <<>>
  /\ miningTimer = FALSE
  /\ liveTimers = 0
  /\ teleportHoldTime = 0
  /\ teleportCooldown = 0
  /\ keyDownFor = 0
  /\ starts = 0

(* ------------------------------ actions -------------------------------- *)
\* the manager in the current state
this ==
  [resources |-> resources, rates |-> rates, playerStats |-> playerStats,
   purchased |-> purchased, lastSaveTime |-> lastSaveTime, store |-> store]

\* the next state holds manager m
Becomes(m) ==
  /\ resources' = m.resources
  /\ rates' = m.rates
  /\ playerStats' = m.playerStats
  /\ purchased' = m.purchased
  /\ lastSaveTime' = m.lastSaveTime
  /\ store' = m.store

PurchaseUpgrade ==
  \E id \in UpgradeIdInputs :
    /\ Becomes(purchaseUpgrade(this, id).m)
    /\ UNCHANGED <<scene, planets, counters>>

\* addResource(kind, amount) called with a call of the set given, at most max
\* times
AddResourceWith(calls, max) ==
  \E c \in calls :
    /\ adds < max
    /\ adds' = adds + 1
    /\ Becomes([this EXCEPT
                  !.resources = addResource(resources, c[1], FromInt(c[2]))])
    /\ UNCHANGED <<scene, planets, ticks, loads, statCalls>>

AddResource == AddResourceWith(AddCalls, MaxAdds)

\* the credit of a destroyed asteroid
Haul == AddResourceWith(HaulCalls, MaxHauls)

\* a debit or a credit between two spending calls
Spend == AddResourceWith(ColonyCalls, MaxAdds)

\* update(delta) called by the scene with a frame delta of the set given, at
\* most max times with a positive delta
UpdateWith(deltas, max) ==
  \E dt \in deltas :
    /\ dt > 0 => ticks < max
    /\ ticks' = IF dt > 0 THEN ticks + 1 ELSE ticks
    /\ Becomes(update(this, dt))
    /\ UNCHANGED <<scene, planets, adds, loads, statCalls>>

Update == UpdateWith(TickCalls, MaxTicks)

Frame == UpdateWith(FrameCalls, MaxFrames)

SaveGame ==
  /\ Becomes(saveGame(this))
  /\ UNCHANGED <<scene, planets, counters>>

LoadGame ==
  /\ store.present => loads < MaxLoads
  /\ loads' = IF store.present THEN loads + 1 ELSE loads
  /\ Becomes(loadGame(this))
  /\ UNCHANGED <<scene, planets, ticks, adds, statCalls>>

ResetGame ==
  /\ Becomes(resetGame(this))
  /\ UNCHANGED <<scene, planets, counters>>

ColonizePlanet ==
  \E i \in PlanetIx :
    LET r == colonizePlanet(resources, planets[i], i) IN
    /\ resources' = r.resources
    /\ planets' = [planets EXCEPT ![i] = r.planet]
    /\ UNCHANGED <<rates, playerStats, purchased, lastSaveTime, store, counters,
                   scene>>

UpgradePlanetColony ==
  \E i \in PlanetIx :
    LET r == upgradePlanetColony(resources, planets[i], i) IN
    /\ resources' = r.resources
    /\ planets' = [planets EXCEPT ![i] = r.planet]
    /\ UNCHANGED <<rates, playerStats, purchased, lastSaveTime, store, counters,
                   scene>>

\* one more call on the player stats, leaving manager m
StatCall(m) ==
  /\ statCalls < MaxStatCalls
  /\ statCalls' = statCalls + 1
  /\ Becomes(m)
  /\ UNCHANGED <<scene, planets, ticks, adds, loads>>

SetPlayerStat == \E c \in SetCalls : StatCall(setPlayerStat(this, c[1], c[2]))

UpgradeShipSpeed == \E a \in StatAmounts : StatCall(upgradeShipSpeed(this, a))

UpgradeCollectionRadius ==
  \E a \in StatAmounts : StatCall(upgradeCollectionRadius(this, a))

UpgradeAutoCollectChance ==
  \E a \in StatAmounts : StatCall(upgradeAutoCollectChance(this, a))

UpgradeMiningSpeed ==
  \E a \in StatAmounts : StatCall(upgradeMiningSpeed(this, a))

UpgradeMiningPower ==
  \E a \in StatAmounts : StatCall(upgradeMiningPower(this, a))

\* the manager and the scene in the current state
world ==
  [m |-> this, asteroids |-> asteroids, shipAt |-> shipAt,
   nearbyAsteroids |-> nearbyAsteroids, miningActive |-> miningActive,
   miningTargets |-> miningTargets, miningTimer |-> miningTimer,
   liveTimers |-> liveTimers]

\* the TeleportSystem in the current state
teleport ==
  [teleportHoldTime |-> teleportHoldTime, teleportCooldown |-> teleportCooldown]

\* the next state holds the manager and the scene of w
BecomesWorld(w) ==
  /\ Becomes(w.m)
  /\ asteroids' = w.asteroids
  /\ shipAt' = w.shipAt
  /\ nearbyAsteroids' = w.nearbyAsteroids
  /\ miningActive' = w.miningActive
  /\ miningTargets' = w.miningTargets
  /\ miningTimer' = w.miningTimer
  /\ liveTimers' = w.liveTimers

\* MiningSystem.update(delta) in one frame, with the mining key just pressed,
\* just released, both or neither
MiningUpdate ==
  \E justDown \in BOOLEAN, justUp \in BOOLEAN :
    /\ BecomesWorld(miningUpdate(world, justDown, justUp))
    /\ UNCHANGED <<planets, counters, teleportHoldTime, teleportCooldown,
                   keyDownFor, starts>>

\* the scene clock fires one of the live mining timers
TimerFires ==
  /\ liveTimers > 0
  /\ BecomesWorld(mineAsteroids(world))
  /\ UNCHANGED <<planets, counters, teleportHoldTime, teleportCooldown,
                 keyDownFor, starts>>

\* AutopilotSystem.handleAutopilotMovement with its target within the attack
\* range: mineTarget() is called, at most MaxStarts times
MineTarget ==
  /\ starts < MaxStarts
  /\ \E a \in AsteroidIx :
       /\ asteroids[a].active
       /\ Distance(shipAt, a) * StatUnit <= playerStats.attackRange
  /\ starts' = starts + 1
  /\ BecomesWorld(mineTarget(world))
  /\ UNCHANGED <<planets, counters, teleportHoldTime, teleportCooldown,
                 keyDownFor>>

\* the explosion of a mined asteroid ends: the asteroid is destroyed
Destroyed ==
  \E a \in AsteroidIx :
    /\ asteroids[a].hasBeenMined
    /\ asteroids[a].active
    /\ asteroids' = [asteroids EXCEPT ![a] = destroy(@)]
    /\ UNCHANGED <<resources, rates, playerStats, purchased, lastSaveTime,
                   store, planets, counters, shipAt, nearbyAsteroids,
                   miningActive, miningTargets, miningTimer, liveTimers,
                   teleportHoldTime, teleportCooldown, keyDownFor, starts>>

\* the ship flies back from the station to the belt
FlyToBelt ==
  /\ shipAt = "station"
  /\ shipAt' = "belt"
  /\ UNCHANGED <<resources, rates, playerStats, purchased, lastSaveTime,
                 store, planets, counters, asteroids, nearbyAsteroids,
                 miningActive, miningTargets, miningTimer, liveTimers,
                 teleportHoldTime, teleportCooldown, keyDownFor, starts>>

\* TeleportSystem.update(delta) in one frame, with the teleport key down or
\* up; keyDownFor adds up the deltas of the updates that saw the key down
\* since the last update that saw it up or teleported
TeleportUpdate ==
  \E isDown \in BOOLEAN, delta \in TeleportDeltas :
    LET r == teleportUpdate(teleport, isDown, delta) IN
    /\ teleportHoldTime' = r.t.teleportHoldTime
    /\ teleportCooldown' = r.t.teleportCooldown
    /\ keyDownFor' = IF isDown /\ ~r.teleported THEN keyDownFor + delta ELSE 0
    /\ BecomesWorld(IF r.teleported THEN teleportToSpaceStation(world)
                    ELSE world)
    /\ UNCHANGED <<planets, counters, starts>>

\* the ResourceManager driven through its public methods
Next ==
  \/ PurchaseUpgrade
  \/ AddResource
  \/ Update
  \/ SaveGame
  \/ LoadGame
  \/ ResetGame

Spec == Init /\ [][Next]_vars

\* the ResourceManager together with the PlanetarySystem that spends from it
NextGame ==
  \/ Next
  \/ ColonizePlanet
  \/ UpgradePlanetColony

SpecGame == Init /\ [][NextGame]_vars

\* the frame loop: update with every frame delta, between credits, debits
\* and manual saves
NextFrames ==
  \/ Frame
  \/ AddResource
  \/ SaveGame

SpecFrames == Init /\ [][NextFrames]_vars

\* the upgrade tree played to its end: purchases paid from mining credits,
\* between saves and loads
NextTree ==
  \/ PurchaseUpgrade
  \/ Haul
  \/ SaveGame
  \/ LoadGame

SpecTree == Init /\ [][NextTree]_vars

\* the player stats under every method that writes them
NextStats ==
  \/ PurchaseUpgrade
  \/ SetPlayerStat
  \/ UpgradeShipSpeed
  \/ UpgradeCollectionRadius
  \/ UpgradeAutoCollectChance
  \/ UpgradeMiningSpeed
  \/ UpgradeMiningPower
  \/ SaveGame
  \/ LoadGame
  \/ ResetGame

SpecStats == Init /\ [][NextStats]_vars

\* the calls that arrive from the game loop and the UI callbacks, each run to
\* completion: update ticks, credits and debits, purchase requests
NextLoop ==
  \/ Update
  \/ AddResource
  \/ Haul
  \/ PurchaseUpgrade

SpecLoop == Init /\ [][NextLoop]_vars

\* the planet dialog and the upgrades panel spending from the same balances,
\* between credits and a debit
NextColony ==
  \/ ColonizePlanet
  \/ UpgradePlanetColony
  \/ PurchaseUpgrade
  \/ Spend

SpecColony == Init /\ [][NextColony]_vars

\* the mining loop: frames of the MiningSystem, its timer callbacks, the
\* autopilot's calls, asteroids ending their explosion, and the manager's
\* purchases and reset between them
NextMining ==
  \/ MiningUpdate
  \/ TimerFires
  \/ MineTarget
  \/ Destroyed
  \/ PurchaseUpgrade
  \/ ResetGame

SpecMining == Init /\ [][NextMining]_vars

\* the teleport: frames of the TeleportSystem and of the MiningSystem it
\* stops, and the flight back to the belt
NextTeleport ==
  \/ TeleportUpdate
  \/ MiningUpdate
  \/ FlyToBelt

SpecTeleport == Init /\ [][NextTeleport]_vars

(* ------------------------ vocabulary of the claims --------------------- *)
\* the catalog entry of a catalog id, its cost and its prerequisite set
EntryOf ==
  [id \in CatalogIds |->
     CHOOSE u \in {Catalog[i] : i \in 1..Len(Catalog)} : u.id = id]
CostTable == [id \in CatalogIds |-> EntryOf[id].cost]
RequiresTable ==
  [id \in CatalogIds |->
     {EntryOf[id].requires[k] : k \in 1..Len(EntryOf[id].requires)}]
CostOf(id) == CostTable[id]
RequiresSet(id) == RequiresTable[id]

\* not purchased and every prerequisite purchased
Available(id) ==
  /\ id \in CatalogIds
  /\ ~purchased[id]
  /\ \A r \in RequiresSet(id) : purchased[r]

\* both balances cover the cost
Funded(id) ==
  /\ ~FLess(resources.metal, CostOf(id).metal)
  /\ ~FLess(resources.crystal, CostOf(id).crystal)

\* exact arithmetic on the values of numbers: difference, multiple by an
\* integer, multiple by 2^e, absolute value, order
XSub(x, y) == XAdd(x, Neg(y))
XScale(x, n) ==
  Num(x.neg # (n < 0), BigMul(NatLimbs(IF n < 0 THEN -n ELSE n), x.mag))
XShift(x, e) ==
  Num(x.neg, Strip(Zeros(e \div LimbBits)
                   \o MulSmallFrom(x.mag, 2^(e % LimbBits), 1, 0)))
Abs(x) == Num(FALSE, x.mag)
XLeq(x, y) == ~FLess(y, x)

\* the stats an upgrade's documented effect must produce from stats ps
EffectApplied(id, ps, after) ==
  LET rangeTimes2 ==
        CASE id \in {"basic_attack_range", "attack_mastery"} -> 3
          [] id = "improved_attack_range" -> 4
          [] id = "superior_attack_range" -> 6
          [] OTHER -> 2
      targets ==
        CASE id = "basic_multi_target"    -> 2 * StatUnit
          [] id = "improved_multi_target" -> 4 * StatUnit
          [] id = "superior_multi_target" -> 8 * StatUnit
          [] id = "attack_mastery"        -> 2 * ps.multiAttack
          [] OTHER -> ps.multiAttack
      power == IF id = "attack_mastery" THEN 2 * ps.attackPower
               ELSE ps.attackPower
  IN  /\ 2 * after.attackRange = rangeTimes2 * ps.attackRange
      /\ after.multiAttack = targets
      /\ after.attackPower = power
      /\ \A f \in DOMAIN ps \ {"attackRange", "multiAttack", "attackPower"} :
           after[f] = ps[f]
      /\ DOMAIN after = DOMAIN ps

\* repeated update(d)
RECURSIVE UpdateTimes(_, _, _)
UpdateTimes(m, n, d) == IF n = 0 THEN m ELSE UpdateTimes(update(m, d), n - 1, d)

\* repetitions of update(d) compared with one update(n * d)
MaxRepeat == 2

\* the rates, stats and purchased flags of manager b are those of manager a
SameButResources(a, b) ==
  /\ b.rates = a.rates
  /\ b.playerStats = a.playerStats
  /\ b.purchased = a.purchased

\* |err| <= steps * 2^-51 * (|before| + |rate * ms / 1000|)
Within(err, before, rate, ms, steps) ==
  XLeq(XShift(XScale(Abs(err), 1000), 51),
       XScale(XAdd(XScale(Abs(before), 1000), Abs(XScale(rate, ms))), steps))

\* amount after is before + rate * ms / 1000 up to that many roundings
AccruedWithin(before, after, rate, ms, steps) ==
  LET exact1000 == XAdd(XScale(before, 1000), XScale(rate, ms))
      err1000 == XSub(XScale(after, 1000), exact1000)
  IN  XLeq(XShift(Abs(err1000), 51),
           XScale(XAdd(XScale(Abs(before), 1000), Abs(XScale(rate, ms))), steps))

\* a whole multiple of 1/2
HalfMultiple(x) ==
  \A i \in 1..Len(x.mag) :
    \/ i > FracLimbs
    \/ i = FracLimbs /\ x.mag[i] % 2^(LimbBits - 1) = 0
    \/ i < FracLimbs /\ x.mag[i] = 0

(* ------------------------------- claims -------------------------------- *)

\* C1: purchaseUpgrade(id) returns false and leaves resources, rates, stats
\* and every purchased flag as they were when the id is not in the catalog,
\* the upgrade is already purchased, a required upgrade is not purchased, or
\* metal or crystal is below the cost; after a successful purchase a second
\* purchase of the same id fails with no change.
C1_RejectedPurchaseChangesNothing ==
  \A id \in UpgradeIdInputs :
    LET r == purchaseUpgrade(this, id) IN
    /\ (~Available(id) \/ ~Funded(id)) => (r.ret = FALSE /\ r.m = this)
    /\ r.ret = TRUE =>
         LET again == purchaseUpgrade(r.m, id) IN
         again.ret = FALSE /\ again.m = r.m

\* C1 witness: an upgrade has been bought, the next one of its branch has its
\* prerequisite but not the funds, and the one after is locked
C1_Witness ==
  /\ purchased["basic_attack_range"]
  /\ ~purchased["improved_attack_range"]
  /\ FLess(resources.metal, CostOf("improved_attack_range").metal)

\* C2: for an upgrade that is in the catalog, not purchased, with every
\* required upgrade purchased and both balances covering the cost,
\* purchaseUpgrade returns true, debits exactly the cost of both resources,
\* applies the effect once, sets that flag and no other, and leaves the rates
\* alone.
C2_PurchaseCommits ==
  \A id \in UpgradeIdInputs :
    (Available(id) /\ Funded(id)) =>
      LET r == purchaseUpgrade(this, id) IN
      /\ r.ret = TRUE
      /\ XAdd(r.m.resources.metal, CostOf(id).metal) = resources.metal
      /\ XAdd(r.m.resources.crystal, CostOf(id).crystal) = resources.crystal
      /\ EffectApplied(id, playerStats, r.m.playerStats)
      /\ r.m.purchased[id]
      /\ \A o \in CatalogIds \ {id} : r.m.purchased[o] = purchased[o]
      /\ r.m.rates = rates
      /\ r.m.lastSaveTime = lastSaveTime /\ r.m.store = store

\* C2 witness: a branch upgrade was bought and the next one can be bought
C2_Witness ==
  /\ purchased["basic_attack_range"]
  /\ Available("improved_attack_range")
  /\ Funded("improved_attack_range")

\* C3: in every reachable state of the manager and the planetary system
\* (update with dt >= 0, addResource, purchaseUpgrade, colonizing, colony
\* upgrades, saveGame, loadGame, resetGame) metal >= 0 and crystal >= 0.
C3_ResourcesNeverNegative ==
  ~resources.metal.neg /\ ~resources.crystal.neg

\* C4: every purchased upgrade with a non-empty requires list has all of its
\* required upgrades purchased.
C4_PurchasedImpliesRequired ==
  \A id \in CatalogIds :
    purchased[id] => \A r \in RequiresSet(id) : purchased[r]

\* C4 witness: a snapshot has been loaded and a second-level upgrade is
\* purchased
C4_Witness ==
  /\ loads > 0
  /\ store.present
  /\ purchased["improved_attack_range"]

\* C5 (as claimed): once an upgrade's purchased flag is true it is true in
\* every later state, whatever operation follows.
C5_PurchasedIsTerminal ==
  [][\A id \in CatalogIds : purchased[id] => purchased'[id]]_vars

\* C5 (amended): a purchased flag goes from true to false only in a resetGame
\* step or a loadGame step; purchaseUpgrade, update, addResource and saveGame
\* keep every purchased flag that is true.
C5_UnpurchasedOnlyByResetOrLoad ==
  [][(\E id \in CatalogIds : purchased[id] /\ ~purchased'[id])
       => (ResetGame \/ LoadGame)]_vars

\* C5 witness: an upgrade bought earlier is still purchased after an update,
\* an addResource and a save
C5_Witness ==
  /\ purchased["basic_attack_range"]
  /\ ticks > 0 /\ adds > 0
  /\ store.present
  /\ store.upgrades[2].purchased

\* C6: addResource(kind, delta) with a delta that would make amount[kind]
\* negative leaves both amounts unchanged; any other delta is added to
\* amount[kind] and the other amount is unchanged.
C6_AddResourceGuardsOverdraft ==
  \A kind \in ResourceKinds, a \in AddAmounts :
    LET after == addResource(resources, kind, FromInt(a))
        sum == XAdd(resources[kind], FromInt(a))
    IN
    IF sum.neg
    THEN after = resources
    ELSE /\ after[kind] = sum
         /\ \A o \in ResourceKinds \ {kind} : after[o] = resources[o]

\* C7: getAvailableUpgrades returns exactly the catalog upgrades that are not
\* purchased and whose every required id is purchased, each once; the panel's
\* node state agrees with it.
C7_AvailableUpgradesExact ==
  LET avail == getAvailableUpgrades(purchased) IN
  /\ {avail[k].id : k \in 1..Len(avail)} = {id \in CatalogIds : Available(id)}
  /\ \A j, k \in 1..Len(avail) : avail[j].id = avail[k].id => j = k
  /\ \A i \in 1..Len(Catalog) :
       nodeState(purchased, Catalog[i]) = "available" <=> Available(Catalog[i].id)

\* C7 witness: one upgrade of a branch is purchased, the next is available and
\* the capstone is locked with one of its two prerequisites purchased
C7_Witness ==
  /\ purchased["superior_attack_range"]
  /\ ~purchased["superior_multi_target"]
  /\ Available("basic_multi_target")

\* C8: canAffordUpgrade(id) is true iff the id is in the catalog, the upgrade
\* is available and both balances cover the cost, and it is true exactly when
\* purchaseUpgrade(id) succeeds.
C8_CanAffordMatchesPurchase ==
  \A id \in UpgradeIdInputs :
    /\ canAffordUpgrade(resources, purchased, id) <=> (Available(id) /\ Funded(id))
    /\ canAffordUpgrade(resources, purchased, id) <=> purchaseUpgrade(this, id).ret

\* C9: with rates >= 0 and dt >= 0 update never lowers metal or crystal, and
\* update(0) changes no amount, rate, stat, purchased flag or accumulator and
\* writes no snapshot, in the current state and right after any update(dt).
C9_UpdateMonotoneAndZeroNoOp ==
  \A dt \in DeltaTimes :
    LET after == update(this, dt) IN
    /\ (~rates.metalRate.neg /\ ~rates.crystalRate.neg) =>
         /\ XLeq(resources.metal, after.resources.metal)
         /\ XLeq(resources.crystal, after.resources.crystal)
    /\ dt = 0 => after = this
    /\ update(after, 0) = after

\* C9 witness: an update has run, the accumulator is half way to the autosave
\* interval and a snapshot was stored earlier
C9_Witness ==
  /\ ticks > 0
  /\ 2 * lastSaveTime = autosaveInterval
  /\ store.present
  /\ FLess(Zero, rates.metalRate)

\* C10 (as claimed): update(deltaMs) adds exactly metalRate * deltaMs / 1000 to
\* metal and crystalRate * deltaMs / 1000 to crystal and changes no rate, stat
\* or purchased flag; update(1000) at metalRate 0.5 adds exactly 0.5 metal; n
\* calls update(d) accrue exactly what one call update(n * d) accrues.
C10_UpdateAccruesExactly ==
  \A dt \in DeltaTimes :
    LET after == update(this, dt) IN
    /\ XScale(XSub(after.resources.metal, resources.metal), 1000)
         = XScale(rates.metalRate, dt)
    /\ XScale(XSub(after.resources.crystal, resources.crystal), 1000)
         = XScale(rates.crystalRate, dt)
    /\ SameButResources(this, after)
    /\ (dt = 1000 /\ rates.metalRate = FDiv(1, 2)) =>
         XSub(after.resources.metal, resources.metal) = FDiv(1, 2)
    /\ \A n \in 2..MaxRepeat :
         UpdateTimes(this, n, dt).resources = update(this, n * dt).resources

\* C10 (amended): update(deltaMs) adds metalRate * deltaMs / 1000 to metal and
\* crystalRate * deltaMs / 1000 to crystal as rounded by double arithmetic,
\* within 2^-51 * (|amount| + |increment|) of the exact sum, and changes no
\* rate, stat or purchased flag; update(1000) at metalRate 0.5 adds exactly
\* 0.5 to a metal amount that is a multiple of 0.5; n calls update(d) accrue
\* what one call update(n * d) accrues to within (n + 1) such roundings.
C10_UpdateAccruesRounded ==
  \A dt \in DeltaTimes :
    LET after == update(this, dt) IN
    /\ AccruedWithin(resources.metal, after.resources.metal,
                     rates.metalRate, dt, 1)
    /\ AccruedWithin(resources.crystal, after.resources.crystal,
                     rates.crystalRate, dt, 1)
    /\ SameButResources(this, after)
    /\ (dt = 1000 /\ rates.metalRate = FDiv(1, 2)
          /\ HalfMultiple(resources.metal)) =>
         XSub(after.resources.metal, resources.metal) = FDiv(1, 2)
    /\ \A n \in 2..MaxRepeat :
         LET many == UpdateTimes(this, n, dt).resources
             once == update(this, n * dt).resources
         IN  /\ Within(XSub(many.metal, once.metal), resources.metal,
                       rates.metalRate, n * dt, n + 1)
             /\ Within(XSub(many.crystal, once.crystal), resources.crystal,
                       rates.crystalRate, n * dt, n + 1)
             /\ AccruedWithin(resources.metal, many.metal,
                              rates.metalRate, n * dt, n)
             /\ AccruedWithin(resources.crystal, many.crystal,
                              rates.crystalRate, n * dt, n)

\* C10 witness: two update(16) have been credited from the starting amounts,
\* and metal is not what one update(32) credits
C10_Witness ==
  LET inc == FMul(rates.metalRate, FDiv(16, 1000)) IN
  /\ ticks = 2
  /\ resources.metal = FAdd(FAdd(StartingResources.metal, inc), inc)
  /\ resources.metal
       # FAdd(StartingResources.metal, FMul(rates.metalRate, FDiv(32, 1000)))

(* --------------------------- vocabulary: load -------------------------- *)
\* the purchased flag a snapshot records for every catalog id
RecordedFlags(snap) ==
  [id \in CatalogIds |->
     \E k \in 1..Len(snap.upgrades) :
       snap.upgrades[k].id = id /\ snap.upgrades[k].purchased]

\* the product of the range multipliers (1.5, 2, 3, 1.5) of the upgrades
\* flagged in f, as the reduced fraction RangeNum / RangeDen
RangeHalves(f) ==
  (IF f["basic_attack_range"] THEN 1 ELSE 0)
  + (IF f["attack_mastery"] THEN 1 ELSE 0)
RangeTwos(f) == IF f["improved_attack_range"] THEN 1 ELSE 0
RangeNum(f) ==
  (IF f["basic_attack_range"] THEN 3 ELSE 1)
  * (IF f["superior_attack_range"] THEN 3 ELSE 1)
  * (IF f["attack_mastery"] THEN 3 ELSE 1)
  * (IF RangeTwos(f) > RangeHalves(f) THEN 2 ELSE 1)
RangeDen(f) ==
  IF RangeHalves(f) > RangeTwos(f) THEN Pow2(RangeHalves(f) - RangeTwos(f))
  ELSE 1

\* stats "after" are stats ps with the effect of every upgrade flagged in f
\* applied once, in catalog order: the range multiplied, the target count set
\* by the last multi-target tier flagged, then doubled, with the attack power,
\* by the mastery
Replayed(f, ps, after) ==
  LET tier == IF f["superior_multi_target"] THEN 8 * StatUnit
              ELSE IF f["improved_multi_target"] THEN 4 * StatUnit
              ELSE IF f["basic_multi_target"] THEN 2 * StatUnit
              ELSE ps.multiAttack
      twice == IF f["attack_mastery"] THEN 2 ELSE 1
  IN  /\ RangeDen(f) * after.attackRange = RangeNum(f) * ps.attackRange
      /\ after.multiAttack = twice * tier
      /\ after.attackPower = twice * ps.attackPower
      /\ DOMAIN after = DOMAIN ps
      /\ \A k \in DOMAIN ps \ {"attackRange", "multiAttack", "attackPower"} :
           after[k] = ps[k]

(* ------------------------------- C11 ----------------------------------- *)
\* C11: with a snapshot stored, loadGame leaves the resource amounts and the
\* rates of the snapshot, sets the purchased flag of every catalog entry to
\* the flag the snapshot records, and leaves the stats of the snapshot with
\* the effect of every upgrade recorded as purchased applied once more, in
\* catalog order; the stored item and the autosave clock are not touched.
C11_LoadRestoresAndReplays ==
  store.present =>
    LET after == loadGame(this) IN
    /\ after.resources = store.resources
    /\ after.rates = store.rates
    /\ after.purchased = RecordedFlags(store)
    /\ Replayed(RecordedFlags(store), store.playerStats, after.playerStats)
    /\ after.store = store
    /\ after.lastSaveTime = lastSaveTime

\* a snapshot taken with the whole tree purchased has been loaded: the stats
\* are those of the snapshot with every effect applied again
C11_Witness ==
  /\ loads > 0
  /\ store.present
  /\ RecordedFlags(store)["attack_mastery"]
  /\ purchased = RecordedFlags(store)
  /\ resources = store.resources
  /\ playerStats # store.playerStats
  /\ Replayed(RecordedFlags(store), store.playerStats, playerStats)

(* ------------------------------- C12 ----------------------------------- *)
\* C12: saveGame followed at once by loadGame leaves the resource amounts,
\* the rates and every purchased flag as they were before the save; the stats
\* differ from those before the save by one more application of the effect
\* of every purchased upgrade, and by nothing else.
C12_SaveLoadRoundTrip ==
  LET after == loadGame(saveGame(this)) IN
  /\ after.resources = resources
  /\ after.rates = rates
  /\ after.purchased = purchased
  /\ Replayed(purchased, playerStats, after.playerStats)

\* a save with the multi-target branch bought to its second tier has been
\* loaded back: amounts and flags are those saved, the range effects of the
\* first branch have not been bought and the range is still the base range
C12_Witness ==
  /\ loads > 0
  /\ store.present
  /\ resources = store.resources
  /\ rates = store.rates
  /\ purchased = RecordedFlags(store)
  /\ purchased["improved_multi_target"]
  /\ ~purchased["superior_multi_target"]
  /\ ~purchased["basic_attack_range"]
  /\ playerStats.multiAttack = 4 * StatUnit
  /\ playerStats.attackRange = 100 * StatUnit

(* ------------------------------- C13 ----------------------------------- *)
\* C13: after any sequence of purchaseUpgrade, saveGame and loadGame calls
\* (and mining credits, which touch no stat) the attack range is the base
\* range, 100, times the product of the multipliers of the range upgrades
\* now purchased, and the attack power is the base power, 1, doubled exactly
\* when attack_mastery is purchased: every effect has been applied once.
C13_EffectsAppliedOnce ==
  /\ RangeDen(purchased) * playerStats.attackRange
       = RangeNum(purchased) * (100 * StatUnit)
  /\ playerStats.attackPower
       = (IF purchased["attack_mastery"] THEN 2 ELSE 1) * (1 * StatUnit)

(* ------------------------------- C14 ----------------------------------- *)
\* the state the reset must leave: nothing stored, no metal and no crystal,
\* the rates 0.5 and 0.2, the eight default stats, no upgrade purchased
IsResetState(m) ==
  /\ ~m.store.present
  /\ m.resources.metal = Zero /\ m.resources.crystal = Zero
  /\ XScale(m.rates.metalRate, 2) = FromInt(1)
  /\ m.rates.crystalRate = FDiv(2, 10)
  /\ DOMAIN m.playerStats
       = {"shipSpeed", "collectionRadius", "autoCollectChance", "miningSpeed",
          "miningPower", "attackRange", "attackPower", "multiAttack"}
  /\ m.playerStats.shipSpeed = 200 * StatUnit
  /\ m.playerStats.collectionRadius = 0
  /\ m.playerStats.autoCollectChance = 0
  /\ m.playerStats.miningSpeed = StatUnit
  /\ m.playerStats.miningPower = StatUnit
  /\ m.playerStats.attackRange = 100 * StatUnit
  /\ m.playerStats.attackPower = StatUnit
  /\ m.playerStats.multiAttack = StatUnit
  /\ \A id \in CatalogIds : ~m.purchased[id]

FailingItems(snap) ==
  {[ItemOf(snap) EXCEPT !.kind = "throws"],
   [ItemOf(snap) EXCEPT !.upgradesKind = "notArray"]}
  \cup {[ItemOf(snap) EXCEPT !.brokenAt = k] : k \in 1..Len(snap.upgrades)}

\* the hardcoded defaults of the fields: resources, rates, stats and the
\* purchased flags of the catalog literal
IsDefaultState(m) ==
  /\ m.resources = R(0, 0)
  /\ m.rates = [metalRate |-> FDiv(1, 2), crystalRate |-> FDiv(1, 5)]
  /\ m.playerStats = DefaultPlayerStats
  /\ m.purchased = InitialPurchased

\* C15: when loadGame fails on the stored item, whether the store or the
\* parser throws or the restoration breaks on the upgrades field, the
\* resources, rates, stats and purchased flags afterwards are the hardcoded
\* defaults: never a mixture of snapshot values and earlier values. The load
\* is the one the constructor makes, on the freshly initialised fields.
C15_FailedLoadFallsBack ==
  store.present =>
    \A item \in FailingItems(store) :
      IsDefaultState(loadGameFrom(FieldDefaults(store), item))

(* ------------------------------- C16 ----------------------------------- *)
\* C16: a ResourceManager constructed with nothing stored starts with the
\* fixed defaults: no metal, no crystal, the rates 0.5 and 0.2, the default
\* stats; constructed with a snapshot stored, it starts with the resource
\* amounts, the rates and the purchased flags of the snapshot.
C16_ConstructedFromDefaultsOrSnapshot ==
  LET c == construct(store) IN
  IF store.present
  THEN /\ c.resources = store.resources
       /\ c.rates = store.rates
       /\ c.purchased = RecordedFlags(store)
  ELSE /\ c.resources = R(0, 0)
       /\ c.rates = [metalRate |-> FDiv(1, 2), crystalRate |-> FDiv(1, 5)]
       /\ c.playerStats = DefaultPlayerStats

(* ------------------------------- C17 ----------------------------------- *)
\* C17: setPlayerStat(name, value) stores a value of autoCollectChance
\* clamped to [0, 1] (below 0 as 0, above 1 as 1) and the value of any other
\* stat as given, and touches no other stat, nor the resources, the rates or
\* the purchased flags.
C17_SetPlayerStatClamps ==
  \A c \in SetCalls :
    LET after == setPlayerStat(this, c[1], c[2])
        stored == IF c[1] # "autoCollectChance" THEN c[2]
                  ELSE IF c[2] < 0 THEN 0
                  ELSE IF c[2] > StatUnit THEN StatUnit
                  ELSE c[2]
    IN  /\ after.playerStats[c[1]] = stored
        /\ \A k \in DOMAIN playerStats \ {c[1]} :
             after.playerStats[k] = playerStats[k]
        /\ after.resources = resources
        /\ after.rates = rates
        /\ after.purchased = purchased

(* ------------------------------- C18 ----------------------------------- *)
\* C18: in every state reached by purchaseUpgrade, setPlayerStat, the five
\* upgrade...() helpers, saveGame, loadGame and resetGame calls, every player
\* stat is at least 0 and autoCollectChance is at most 1.
C18_StatsInRange ==
  /\ \A k \in DOMAIN playerStats : playerStats[k] >= 0
  /\ playerStats.autoCollectChance <= StatUnit

(* ------------------------------- C19 ----------------------------------- *)
\* the managers one call of update, addResource, purchaseUpgrade or
\* setPlayerStat can leave
Mutated(m) ==
  {update(m, dt) : dt \in TickCalls}
  \cup {[m EXCEPT !.resources = addResource(m.resources, c[1], FromInt(c[2]))] :
          c \in AddCalls}
  \cup {purchaseUpgrade(m, id).m : id \in UpgradeIdInputs}
  \cup {setPlayerStat(m, c[1], c[2]) : c \in SetCalls}

\* C19: the getters return copies. A write to a record returned by
\* getResources, getRates or getPlayerStats changes nothing in the manager,
\* and what the caller reads from the record stays what it was when
\* update, addResource, purchaseUpgrade or setPlayerStat then mutate the
\* manager.
C19_GettersReturnCopies ==
  LET later == Mutated(this) IN
  \A h \in {getResources(this), getRates(this), getPlayerStats(this)} :
    /\ readRecord(this, h) = this[h.of]
    /\ \A v \in Overwrites(h) :
         LET w == writeRecord(this, h, v) IN
         /\ w.m = this
         /\ readRecord(w.m, w.h) = v
    /\ \A m \in later : readRecord(m, h) = this[h.of]

\* after a purchase, a save and a mining credit: the stats record a caller
\* gets now differs from the one it would overwrite it with, and a further
\* purchase and a further update change the manager's stats and resources
C19_Witness ==
  /\ store.present
  /\ adds > 0
  /\ purchased["basic_attack_range"]
  /\ \E v \in Overwrites(getPlayerStats(this)) : v # playerStats
  /\ \E m \in Mutated(this) : m.playerStats # playerStats
  /\ \E m \in Mutated(this) : m.resources # resources

(* ------------------------------- C20 ----------------------------------- *)
\* the cost of a and the cost of b together exceed a balance
Exceeds(a, b) ==
  \/ FLess(resources.metal, XAdd(CostOf(a).metal, CostOf(b).metal))
  \/ FLess(resources.crystal, XAdd(CostOf(a).crystal, CostOf(b).crystal))

\* two purchase requests made one after the other in the current state do not
\* both succeed when their costs together exceed a balance
NoDoubleSpend ==
  \A a \in CatalogIds :
    LET first == purchaseUpgrade(this, a) IN
    first.ret =>
      \A b \in CatalogIds :
        Exceeds(a, b) => ~purchaseUpgrade(first.m, b).ret

\* a step between two calls: when a flag changes, it is one flag that goes
\* from false to true and both balances are lower by exactly the cost of that
\* upgrade; when no flag changes, a purchase request has debited nothing
DebitWithFlag ==
  IF purchased' # purchased
  THEN \E id \in CatalogIds :
         /\ ~purchased[id]
         /\ purchased' = [purchased EXCEPT ![id] = TRUE]
         /\ XAdd(resources'.metal, CostOf(id).metal) = resources.metal
         /\ XAdd(resources'.crystal, CostOf(id).crystal) = resources.crystal
  ELSE PurchaseUpgrade => resources' = resources

\* C20: under every interleaving of update ticks, addResource calls and
\* purchase requests, each run to completion, no state between two calls has
\* the cost of an upgrade debited with its flag still false, or the flag true
\* without the debit; and in every such state two purchase requests whose
\* costs together exceed the balance do not both succeed.
C20_PurchaseIsAtomic == []NoDoubleSpend /\ [][DebitWithFlag]_vars

\* after an update tick and a mining credit, with purchases made: two
\* upgrades, the second open once the first is bought, can each be paid
\* alone but not both
C20_Witness ==
  /\ ticks > 0
  /\ adds > 0
  /\ \E a, b \in CatalogIds :
       /\ a # b
       /\ Available(a) /\ Funded(a)
       /\ ~purchased[b] /\ Funded(b)
       /\ \A r \in RequiresSet(b) : purchased[r] \/ r = a
       /\ Exceeds(a, b)

(* ------------------------------- C21 ----------------------------------- *)
\* attack_mastery is among the upgrades getAvailableUpgrades returns
MasteryListed ==
  \E k \in 1..Len(getAvailableUpgrades(purchased)) :
    getAvailableUpgrades(purchased)[k].id = "attack_mastery"

\* both prerequisites of the capstone are purchased
BothSuperior ==
  purchased["superior_attack_range"] /\ purchased["superior_multi_target"]

\* in the current state the capstone is listed and bought only with both
\* prerequisites purchased, and a purchase that succeeds leaves the range
\* times 1.5, the target count doubled and the power doubled
CapstoneGuarded ==
  LET r == purchaseUpgrade(this, "attack_mastery") IN
  /\ MasteryListed => BothSuperior
  /\ r.ret => BothSuperior
  /\ canAffordUpgrade(resources, purchased, "attack_mastery") => BothSuperior
  /\ r.ret =>
       /\ 2 * r.m.playerStats.attackRange = 3 * playerStats.attackRange
       /\ r.m.playerStats.multiAttack = 2 * playerStats.multiAttack
       /\ r.m.playerStats.attackPower = 2 * playerStats.attackPower

\* a purchase step that sets the capstone's flag applies the three
\* multiplications in that same step
CapstoneInOneStep ==
  (PurchaseUpgrade /\ ~purchased["attack_mastery"]
     /\ purchased'["attack_mastery"]) =>
    /\ 2 * playerStats'.attackRange = 3 * playerStats.attackRange
    /\ playerStats'.multiAttack = 2 * playerStats.multiAttack
    /\ playerStats'.attackPower = 2 * playerStats.attackPower

\* C21: attack_mastery is available and purchasable only when both
\* superior_attack_range and superior_multi_target are purchased, and its
\* purchase multiplies attackRange by 1.5, multiAttack by 2 and attackPower
\* by 2 together in the one purchase step: no state has only some of the
\* three applied.
C21_CapstoneNeedsBothAndAppliesAll ==
  []CapstoneGuarded /\ [][CapstoneInOneStep]_vars

\* the capstone has been bought, before any load: range 100 * 1.5 * 2 * 3 *
\* 1.5, sixteen targets, power 2
C21_Witness ==
  /\ purchased["attack_mastery"]
  /\ loads = 0
  /\ playerStats.attackRange = 1350 * StatUnit
  /\ playerStats.multiAttack = 16 * StatUnit
  /\ playerStats.attackPower = 2 * StatUnit

(* ------------------------------- C22 ----------------------------------- *)
\* a balance of res is below the matching amount of cost
Below(res, cost) ==
  FLess(res.metal, cost.metal) \/ FLess(res.crystal, cost.crystal)

\* outcome r of a spending call is a refusal, or the payment of cost
SpendOutcome(r, refused, cost) ==
  IF refused
  THEN ~r.ret /\ r.resources = resources
  ELSE /\ r.ret
       /\ XAdd(r.resources.metal, cost.metal) = resources.metal
       /\ XAdd(r.resources.crystal, cost.crystal) = resources.crystal
       /\ ~r.resources.metal.neg /\ ~r.resources.crystal.neg

\* C22: colonizePlanet and upgradePlanetColony return false and change no
\* resource when metal or crystal is below the cost (colonizationCost, or
\* colonizationCost * 2^colonyLevel for an upgrade), when the planet to
\* colonize is colonized already, or when the planet to upgrade is not
\* colonized; otherwise they debit exactly the cost of both resources, and
\* neither resource is negative afterwards.
C22_PlanetSpendingGuarded ==
  \A i \in PlanetIx :
    LET base == PLANETS[i].colonizationCost
        scaled == [metal   |-> XScale(base.metal, Pow2(planets[i].colonyLevel)),
                   crystal |-> XScale(base.crystal, Pow2(planets[i].colonyLevel))]
    IN  /\ SpendOutcome(colonizePlanet(resources, planets[i], i),
                        planets[i].isColonized \/ Below(resources, base), base)
        /\ SpendOutcome(upgradePlanetColony(resources, planets[i], i),
                        ~planets[i].isColonized \/ Below(resources, scaled),
                        scaled)

\* a colony at level 2 whose next upgrade metal would cover and crystal does
\* not, after a purchase from the catalog and a debit
C22_Witness ==
  \E i \in PlanetIx :
    /\ planets[i].isColonized
    /\ planets[i].colonyLevel = 2
    /\ purchased["basic_multi_target"]
    /\ ~resources.crystal.neg
    /\ ~FLess(resources.metal, XScale(PLANETS[i].colonizationCost.metal, 4))
    /\ FLess(resources.crystal, XScale(PLANETS[i].colonizationCost.crystal, 4))

(* ------------------------------- C23 ----------------------------------- *)
\* the lists the four getters return in the current state
ListsReturned ==
  {getUpgrades(this), getAvailableUpgradesList(this), getRootUpgrades(this)}
  \cup {getChildUpgrades(this, id) : id \in UpgradeIdInputs}

\* C23: the purchased flags are engine-owned: no write by a caller to an
\* upgrade object of a list returned by getUpgrades, getAvailableUpgrades,
\* getRootUpgrades or getChildUpgrades changes a purchased flag of the
\* manager.
C23_FlagsEngineOwned ==
  \A h \in ListsReturned :
    \A k \in 1..Len(h.ids) :
      \A v \in BOOLEAN :
        writePurchased(this, h, k, v).purchased = purchased

(* ------------------------------- C24 ----------------------------------- *)
\* update(dt) in the current state: it writes a snapshot exactly when the
\* accumulator plus dt reaches 30000, the snapshot holds the resources with
\* the accrual of this tick, and the accumulator is 0 afterwards; otherwise
\* the stored item stays and the accumulator grows by dt. Either way the
\* accumulator ends below 30000. saveGame leaves the accumulator alone.
AutosaveOnPeriod ==
  /\ lastSaveTime < 30000
  /\ saveGame(this).lastSaveTime = lastSaveTime
  /\ \A dt \in DeltaTimes :
       LET after == update(this, dt) IN
       /\ after.lastSaveTime < 30000
       /\ IF lastSaveTime + dt >= 30000
          THEN /\ after.lastSaveTime = 0
               /\ after.store.present
               /\ after.store.resources = after.resources
               /\ after.store.rates = rates
               /\ after.store.playerStats = playerStats
               /\ RecordedFlags(after.store) = purchased
               /\ FLess(resources.metal, after.store.resources.metal)
               /\ FLess(resources.crystal, after.store.resources.crystal)
          ELSE /\ after.lastSaveTime = lastSaveTime + dt
               /\ after.store = store

\* only an update step moves the accumulator
ClockMovedByUpdateOnly == lastSaveTime' # lastSaveTime => Frame

\* C24: autosave is periodic. update writes a snapshot exactly in the calls
\* where the time accumulated from the deltas since the previous autosave, or
\* since construction, reaches 30000 ms, and then sets the accumulator to 0;
\* the accumulator is below 30000 after every update; a manual saveGame does
\* not restart the period; the autosaved snapshot contains the accrual of the
\* tick that triggered it.
C24_AutosavePeriodic == []AutosaveOnPeriod /\ [][ClockMovedByUpdateOnly]_vars

\* two frames of 15000 ms have passed and the second one autosaved: the
\* accumulator is back at 0 and the stored resources are the current ones,
\* accrual included
C24_Witness ==
  /\ ticks = 2
  /\ lastSaveTime = 0
  /\ store.present
  /\ store.resources = resources
  /\ adds = 0
  /\ FLess(StartingResources.metal, resources.metal)

(* ------------------------------- C25 ----------------------------------- *)
\* C25: when the write of the snapshot fails, saveGame leaves the resources,
\* the rates, the stats, the purchased flags and the snapshot stored before
\* as they were, and an update or a purchase made afterwards gives what it
\* would have given without the attempt.
C25_FailedSaveChangesNothing ==
  LET after == saveGameTo(this, FALSE) IN
  /\ after.resources = resources
  /\ after.rates = rates
  /\ after.playerStats = playerStats
  /\ after.purchased = purchased
  /\ after.store = store
  /\ \A dt \in TickCalls : update(after, dt) = update(this, dt)
  /\ \A id \in UpgradeIdInputs :
       purchaseUpgrade(after, id) = purchaseUpgrade(this, id)

\* an older snapshot is stored and the game has moved on since: a failed
\* save keeps the older snapshot where a save that works replaces it
C25_Witness ==
  /\ store.present
  /\ store.resources # resources
  /\ RecordedFlags(store) # purchased
  /\ saveGameTo(this, FALSE).store = store
  /\ saveGameTo(this, TRUE).store # store

(* ------------------------------- C26 ----------------------------------- *)
\* the ids getAvailableUpgrades offers under the flags pur
Purchasable(pur) ==
  {getAvailableUpgrades(pur)[k].id : k \in 1..Len(getAvailableUpgrades(pur))}

\* C26: resetGame leaves the manager in the state of a manager newly
\* constructed with nothing stored: the same resources, rates, stats and
\* purchased flags, ship_core included, and so the same set of purchasable
\* upgrades as at first start.
C26_ResetEqualsFirstStart ==
  LET r == resetGame(this)
      c == construct(NoSave)
  IN  /\ r.resources = c.resources
      /\ r.rates = c.rates
      /\ r.playerStats = c.playerStats
      /\ r.purchased = c.purchased
      /\ r.store = c.store
      /\ Purchasable(r.purchased) = Purchasable(c.purchased)

(* ------------------------------- C27 ----------------------------------- *)
\* damages of a mine call, in the unit of the player stats: 1, 1.5, 2, 5, 8
Damages ==
  {StatUnit, StatUnit + StatUnit \div 2, 2 * StatUnit, 5 * StatUnit,
   8 * StatUnit}

\* what one asteroid of a type yields in a resource kind: a metal asteroid
\* 10 metal and 3 crystal, a crystal asteroid 5 crystal and 1 metal
Yield(type, kind) ==
  IF type = "metal" THEN (IF kind = "metal" THEN 10 ELSE 3)
  ELSE (IF kind = "crystal" THEN 5 ELSE 1)

\* the yield in a kind of the asteroids of S with index at most n
RECURSIVE YieldOf(_, _, _)
YieldOf(S, kind, n) ==
  IF n = 0 THEN 0
  ELSE YieldOf(S, kind, n - 1) + (IF n \in S THEN Yield(BELT[n], kind) ELSE 0)

\* a mine call returns true exactly when it brings the health from above 0
\* to 0 or below; on an asteroid at 0 or below, and on the asteroid a call
\* that returned true has left, it returns false and changes nothing
MineTrueOnce ==
  \A a \in AsteroidIx : \A d1 \in Damages :
    LET r == mine(asteroids[a], d1) IN
    /\ asteroids[a].hasBeenMined <=> asteroids[a].health <= 0
    /\ r.ret <=> (asteroids[a].health > 0 /\ r.asteroid.health <= 0)
    /\ asteroids[a].health <= 0 => r.asteroid = asteroids[a]
    /\ \A d2 \in Damages :
         r.asteroid.health <= 0 =>
           mine(r.asteroid, d2) = [ret |-> FALSE, asteroid |-> r.asteroid]

\* the asteroids a step marks as mined
NewlyMined ==
  {a \in AsteroidIx : ~asteroids[a].hasBeenMined /\ asteroids'[a].hasBeenMined}

\* a mined asteroid stays mined with its health unchanged, and a step that
\* raises a balance credits exactly the yields of the asteroids it has just
\* mined
CreditedWhenMined ==
  /\ \A a \in AsteroidIx :
       asteroids[a].hasBeenMined =>
         /\ asteroids'[a].hasBeenMined
         /\ asteroids'[a].health = asteroids[a].health
  /\ (FLess(resources.metal, resources'.metal)
      \/ FLess(resources.crystal, resources'.crystal)
      \/ NewlyMined # {}) =>
       /\ NewlyMined # {}
       /\ resources'.metal
            = XAdd(resources.metal,
                   FromInt(YieldOf(NewlyMined, "metal", Len(BELT))))
       /\ resources'.crystal
            = XAdd(resources.crystal,
                   FromInt(YieldOf(NewlyMined, "crystal", Len(BELT))))

\* C27: mine returns true exactly once for an asteroid, on the call that
\* first brings its health to 0 or below, and every later call returns false
\* and leaves the health alone; the MiningSystem credits the yield of an
\* asteroid (metal: 10 metal and 3 crystal; crystal: 5 crystal and 1 metal)
\* in the step that mines it and never again, whatever timers call back.
C27_MinedAndCreditedOnce ==
  []MineTrueOnce /\ [][CreditedWhenMined]_vars

\* the crystal asteroid has been mined and credited, is still exploding, is
\* a target again, and two mining timers are live
C27_Witness ==
  /\ \E k \in 1..Len(miningTargets) :
       /\ asteroids[miningTargets[k]].hasBeenMined
       /\ asteroids[miningTargets[k]].active
       /\ asteroids[miningTargets[k]].asteroidType = "crystal"
  /\ liveTimers >= 2
  /\ resources = R(501, 505)

(* ------------------------------- C28 ----------------------------------- *)
\* an update teleports only outside a cooldown, with the key down and the
\* deltas of the updates that saw it down adding up to the required time;
\* handleTeleport then leaves hold time 0 and the full cooldown; an update
\* outside a cooldown that sees the key up leaves hold time 0
TeleportGuarded ==
  \A isDown \in BOOLEAN, delta \in TeleportDeltas :
    LET r == handleTeleport(teleport, isDown, delta) IN
    /\ teleportCooldown > 0 => ~r.teleported
    /\ r.teleported =>
         /\ teleportCooldown <= 0
         /\ isDown
         /\ keyDownFor + delta >= 1000
         /\ r.t.teleportHoldTime = 0
         /\ r.t.teleportCooldown = 5000
    /\ (~isDown /\ teleportCooldown <= 0) => r.t.teleportHoldTime = 0
    /\ teleportUpdate(teleport, isDown, delta).teleported = r.teleported

\* the ship gets from the belt to the station only by a teleport made
\* outside a cooldown, which leaves the hold time 0 and the cooldown running
ArrivesByTeleport ==
  (shipAt = "belt" /\ shipAt' = "station") =>
    /\ teleportCooldown <= 0
    /\ teleportHoldTime' = 0
    /\ \E delta \in TeleportDeltas :
         /\ keyDownFor + delta >= 1000
         /\ teleportCooldown' = 5000 - delta

\* C28: the TeleportSystem never teleports while the cooldown is above 0; a
\* teleport happens only in an update with the cooldown at 0 or below and
\* the key seen down in consecutive updates whose deltas add up to at least
\* 1000 ms since the last release or teleport; a teleport sets the hold time
\* to 0 and the cooldown to 5000 ms, and a release outside a cooldown sets
\* the hold time to 0.
C28_TeleportNeedsHoldAndNoCooldown ==
  []TeleportGuarded /\ [][ArrivesByTeleport]_vars

\* a teleport has brought the ship to the station, the cooldown is running
\* and the key has been held down through an update of the cooldown
C28_Witness ==
  /\ shipAt = "station"
  /\ teleportCooldown > 0
  /\ teleportHoldTime = 0
  /\ keyDownFor > 0

(* ------------------------------- C29 ----------------------------------- *)
\* C29: at most one repeating mining timer is live at any time: a timer is
\* created by startMining only when none is live, and after stopMining none
\* remains, whatever key-driven starts, autopilot calls of startMining,
\* target destructions and stopMining calls came before.
C29_AtMostOneMiningTimer ==
  /\ liveTimers <= 1
  /\ \A justDown \in BOOLEAN, justUp \in BOOLEAN :
       LET w == miningUpdate(world, justDown, justUp) IN
       w.liveTimers > liveTimers => liveTimers = 0
  /\ mineTarget(world).liveTimers > liveTimers => liveTimers = 0
  /\ stopMining(world).liveTimers = 0

(* ------------------------------- C30 ----------------------------------- *)
\* no more targets than the multiAttack stat of manager m, and no asteroid
\* twice
WithinMultiAttack(targets, m) ==
  /\ Len(targets) * StatUnit <= m.playerStats.multiAttack
  /\ \A j \in 1..Len(targets), k \in 1..Len(targets) :
       targets[j] = targets[k] => j = k

\* C30: the target list never holds more asteroids than the multiAttack
\* stat: after startMining and after findAndAddNewTargets the targets are at
\* most the multiAttack read in the call and pairwise distinct, and the
\* bound holds in every state while mining is active, also after a purchase
\* or a reset has changed multiAttack.
C30_TargetsWithinMultiAttack ==
  /\ WithinMultiAttack(startMining(world).miningTargets, this)
  /\ WithinMultiAttack(miningTargets, this) =>
       WithinMultiAttack(findAndAddNewTargets(world).miningTargets, this)
  /\ miningActive => WithinMultiAttack(miningTargets, this)

====
